---- MODULE Spec2Model ----
(***************************************************************************)
(* Model of the time-aligned speech assembly pipeline of yt-to-bili:       *)
(*   - the Cue Segmenter   (app.py, vtt_to_sentences)                      *)
(*   - the Batch Planner   (app.py, batching loop of                       *)
(*                          translate_subtitles_from_vtt)                  *)
(*   - the translation result collection (app.py)                          *)
(*   - text_to_speech's retry loop (tts_runner.py / worker_utils.py)       *)
(*   - process_tts: synthesis dispatch, Overlap Resolver, Timeline Mixer   *)
(*                                                                         *)
(* Text is modelled as sequences of one-character strings, so the regular  *)
(* expressions of the source are operators that scan characters.           *)
(* Each component has its own specification (SpecSeg, SpecBatch, ...); the *)
(* variables of the other components keep their initial value there.       *)
(***************************************************************************)
EXTENDS Integers, Sequences, FiniteSets, TLC

VARIABLES
    \* ---- Cue Segmenter (app.py, vtt_to_sentences) ----
    vtt_lines,                    \* the lines of vtt_text read so far
    seg_pc,                       \* "idle" | "loop" | "done" | "rerun"
    sentences,                    \* list of "(ts) text" strings
    current_words,                \* words of the sentence in progress
    current_sentence_start_time,  \* None or a timestamp string
    effective_time,               \* None or a timestamp string
    cue_start_time,               \* None or a timestamp string
    rerun_sentences,              \* result of segmenting the output text again
    \* ---- Batch Planner (app.py, batching loop) ----
    bat_pc,                       \* "idle" | "loop" | "done"
    cfg_seg_size,                 \* N, the sentences-per-batch setting
    paragraphs,                   \* the paragraphs read so far
    batched_paragraphs,           \* the closed batches
    current_batch,                \* the batch being filled
    current_char_count,           \* the running character count
    \* ---- translation of the batches (app.py) ----
    tr_pc,                        \* "idle" | "pool" | "assemble" | "write" | "returned" | "reported"
    tr_variant,                   \* "workflow" (translate_subtitles_from_vtt) | "tab2"
    tr_job,                       \* per batch: "queued" | "running" | "completed" | "collected"
    tr_result,                    \* per batch: what translate_batch returned
    translated_results,           \* dict: batch index -> kept result
    translated_paragraphs,        \* list written to the output file
    failed_count,                 \* local counter of failed batches
    tr_report,                    \* what the caller of the translation gets to see
    \* ---- text_to_speech (tts_runner.py, worker_utils.py) ----
    tts_pc,                       \* "idle" | "top" | "sleep" | "call" | "returned" | "raised"
    retry_count,
    tts_calls,                    \* number of communicate.save attempts made
    tts_delay,                    \* the last backoff delay, in ms (0: none yet)
    tts_outcome,                  \* how the last communicate.save ended ("none" before any)
    \* ---- process_tts (tts_runner.py) ----
    p_pc,                         \* position in process_tts
    content,                      \* the text read from txt_file_path, until it is split
    segments,                     \* list of (timestamp, text)
    synth,                        \* per segment: state of its process_segment job
    files,                        \* the temp directory: file name -> audio
    audio_files,                  \* per segment slot, then the sorted clip list
    processed_audio_segments,     \* (path, time_ms, audio) per clip
    speed_adjust_tasks_list,      \* (i, temp_speed_file, target, factor)
    adjust,                       \* per task: state of its adjust_audio_speed job
    final_audio_segments,         \* the clips handed to the mixer
    combined_audio,               \* the placements of the mixed track
    current_pos,                  \* the mixer's cursor, in ms
    output_mp3,                   \* the track exported by this run (None before export)
    returncode,                   \* exit code of the tts_runner.py process ("none" while it runs)
    mp3_file_path,                \* what process_tts_with_speed_adjustment returned ("pending" before)
    \* ---- the status file and background_workflow_task (app.py) ----
    st_file,                      \* content of workflow_status.json
    w_pc,                         \* position of background_workflow_task
    w_step,                       \* the pipeline step it is at (0: before step 1)
    w_code,                       \* status_code of the update_step call in progress
    w_local,                      \* current_status loaded by the task's manager call
    w_attempt,                    \* attempt of retry_op
    w_error,                      \* message of the exception being handled ("" if none)
    auto_upload,                  \* config['auto_upload']
    ui_pc,                        \* position of the request_stop call of the page
    ui_local,                     \* current_status loaded by request_stop
    \* ---- the batch status file and background_batch_workflow_task (app.py) ----
    bst_file,                     \* content of batch_status.json
    bw_pc,                        \* position of background_batch_workflow_task
    bw_i,                         \* index of the video of the loop (1-based)
    bw_code,                      \* status_code of the update_video call in progress
    bw_break,                     \* the update_video call is the one before the break
    bw_local,                     \* current loaded by the task's manager call
    video_files,                  \* workflow_status.json of the finished video_<i> directories
    bui_pc,                       \* position of the request_stop call of the batch page
    bui_local                     \* current loaded by that request_stop

segVars == <<vtt_lines, seg_pc, sentences, current_words,
             current_sentence_start_time, effective_time, cue_start_time,
             rerun_sentences>>

batVars == <<bat_pc, cfg_seg_size, paragraphs, batched_paragraphs,
             current_batch, current_char_count>>

trVars == <<tr_pc, tr_variant, tr_job, tr_result, translated_results,
            translated_paragraphs, failed_count, tr_report>>

ttsVars == <<tts_pc, retry_count, tts_calls, tts_delay, tts_outcome>>

pVars == <<p_pc, content, segments, synth, files, audio_files,
           processed_audio_segments, speed_adjust_tasks_list, adjust,
           final_audio_segments, combined_audio, current_pos, output_mp3,
           returncode, mp3_file_path>>

wVars == <<st_file, w_pc, w_step, w_code, w_local, w_attempt, w_error,
           auto_upload, ui_pc, ui_local>>

bwVars == <<bst_file, bw_pc, bw_i, bw_code, bw_break, bw_local, video_files,
            bui_pc, bui_local>>

vars == <<segVars, batVars, trVars, ttsVars, pVars, wVars, bwVars>>

\* Each specification runs one component; the others stay idle.
SegIdle ==
    /\ vtt_lines = <<>> /\ seg_pc = "idle" /\ sentences = <<>>
    /\ current_words = <<>> /\ current_sentence_start_time = <<>>
    /\ effective_time = <<>> /\ cue_start_time = <<>>
    /\ rerun_sentences = <<>>

BatIdle ==
    /\ bat_pc = "idle" /\ cfg_seg_size = 1 /\ paragraphs = <<>>
    /\ batched_paragraphs = <<>> /\ current_batch = <<>>
    /\ current_char_count = 0

TrIdle ==
    /\ tr_pc = "idle" /\ tr_variant = "workflow" /\ tr_job = <<>>
    /\ tr_result = <<>> /\ translated_results = <<>>
    /\ translated_paragraphs = <<>> /\ failed_count = 0
    /\ tr_report = <<>>

TtsIdle ==
    /\ tts_pc = "idle" /\ retry_count = 0 /\ tts_calls = 0
    /\ tts_delay = 0 /\ tts_outcome = "none"

PIdle ==
    /\ p_pc = "idle" /\ content = <<>> /\ segments = <<>> /\ synth = <<>> /\ files = <<>>
    /\ audio_files = <<>> /\ processed_audio_segments = <<>>
    /\ speed_adjust_tasks_list = <<>> /\ adjust = <<>>
    /\ final_audio_segments = <<>> /\ combined_audio = <<>>
    /\ current_pos = 0 /\ output_mp3 = <<>>
    /\ returncode = "none" /\ mp3_file_path = "pending"

\* no status file content: what a manager call holds before it has loaded
NoStatus == [is_running |-> FALSE, stop_requested |-> FALSE,
             steps |-> <<>>, results |-> FALSE, error |-> ""]

WIdle ==
    /\ st_file = NoStatus /\ w_pc = "idle" /\ w_step = 0 /\ w_code = ""
    /\ w_local = NoStatus /\ w_attempt = 0 /\ w_error = ""
    /\ auto_upload = FALSE /\ ui_pc = "idle" /\ ui_local = NoStatus

BwIdle ==
    /\ bst_file = NoStatus /\ bw_pc = "idle" /\ bw_i = 0 /\ bw_code = ""
    /\ bw_break = FALSE /\ bw_local = NoStatus /\ video_files = <<>>
    /\ bui_pc = "idle" /\ bui_local = NoStatus

-----------------------------------------------------------------------------
(* Bounds of the model *)

\* lines of cue stream fed to the segmenter
MaxLines == 3
\* word tokens in the whole cue stream
MaxWords == 2
\* paragraphs given to the Batch Planner
MaxParagraphs == 4
\* largest sentences-per-batch setting N tried (the slider goes from 1 to 20)
MaxSegSize == 3
\* translation batches
MaxBatches == 3

-----------------------------------------------------------------------------
(* Characters and strings *)

\* Python's None and the empty string: both are falsy in `a or b`
None == <<>>

Truthy(v) == v /= None

\* Python's `a or b`
Or(a, b) == IF Truthy(a) THEN a ELSE b

Digits == {"0", "1", "2", "3", "4", "5", "6", "7", "8", "9"}

\* \s of the re module, on the characters the model uses
IsSpace(c) == c \in {" ", "\t", "\n", "\r"}

RECURSIVE JoinWith(_, _)
\* sep.join(parts)
JoinWith(sep, parts) ==
    IF parts = <<>> THEN <<>>
    ELSE IF Len(parts) = 1 THEN parts[1]
    ELSE parts[1] \o sep \o JoinWith(sep, Tail(parts))

\* s[i:] starts with the characters of p  (i is 1-based)
StartsWithAt(s, i, p) ==
    /\ i >= 1
    /\ i + Len(p) - 1 <= Len(s)
    /\ \A k \in 1..Len(p) : s[i + k - 1] = p[k]

\* str.endswith
EndsWith(s, p) ==
    /\ Len(p) <= Len(s)
    /\ SubSeq(s, Len(s) - Len(p) + 1, Len(s)) = p

RECURSIVE SplitFrom(_, _, _)
\* str.split(): the maximal runs of non-whitespace, left to right;
\* cur is the token being read
SplitFrom(s, i, cur) ==
    IF i > Len(s) THEN (IF cur = <<>> THEN <<>> ELSE <<cur>>)
    ELSE IF IsSpace(s[i])
         THEN (IF cur = <<>> THEN <<>> ELSE <<cur>>) \o SplitFrom(s, i + 1, <<>>)
         ELSE SplitFrom(s, i + 1, Append(cur, s[i]))

Split(s) == SplitFrom(s, 1, <<>>)

RECURSIVE StripChars(_, _)
\* str.strip(chars)
StripChars(s, chars) ==
    IF s = <<>> THEN s
    ELSE IF s[1] \in chars THEN StripChars(Tail(s), chars)
    ELSE IF s[Len(s)] \in chars THEN StripChars(SubSeq(s, 1, Len(s) - 1), chars)
    ELSE s

-----------------------------------------------------------------------------
(* Cue Segmenter: the regular expressions of vtt_to_sentences *)

\* \d{2}:\d{2}:\d{2}\.\d{3} matches s at position i
TsAt(s, i) ==
    /\ i >= 1
    /\ i + 11 <= Len(s)
    /\ \A k \in {0, 1, 3, 4, 6, 7, 9, 10, 11} : s[i + k] \in Digits
    /\ s[i + 2] = ":"
    /\ s[i + 5] = ":"
    /\ s[i + 8] = "."

RECURSIVE SkipSpaces(_, _)
\* the position after the whitespace run that starts at i (\s*, greedy)
SkipSpaces(s, i) ==
    IF i <= Len(s) /\ IsSpace(s[i]) THEN SkipSpaces(s, i + 1) ELSE i

\* CUE_HEADER_RE.match(line): ^(ts)\s*--> (ts)
CueHeaderMatch(line) ==
    /\ TsAt(line, 1)
    /\ LET j == SkipSpaces(line, 13)
       IN  /\ StartsWithAt(line, j, <<"-", "-", ">", " ">>)
           /\ TsAt(line, j + 4)

\* mutant of CueHeaderStart: m.group(2), the end of the cue
CueHeaderStart_EndGroup(line) ==
    SubSeq(line, SkipSpaces(line, 13) + 4, SkipSpaces(line, 13) + 15)

\* m.group(1) of CUE_HEADER_RE
CueHeaderStart(line) == SubSeq(line, 1, 12)

\* TS_TAG_RE matches s at position i: <(ts)>
TsTagAt(s, i) ==
    /\ i >= 1
    /\ i + 13 <= Len(s)
    /\ s[i] = "<"
    /\ TsAt(s, i + 1)
    /\ s[i + 13] = ">"

\* TS_TAG_RE.search(line)
TsTagSearch(line) == \E i \in 1..Len(line) : TsTagAt(line, i)

RECURSIVE UntilGt(_, _)
\* [^>]* from position i: the position of the first ">" at or after i,
\* or Len(s) + 1 when there is none
UntilGt(s, i) ==
    IF i > Len(s) \/ s[i] = ">" THEN i ELSE UntilGt(s, i + 1)

\* C_TAG_RE matches s at position i: the length of the match, 0 for no match
\* </?c(?:\.[^>]*)?>   (re.IGNORECASE)
CTagLen(s, i) ==
    IF ~(i <= Len(s) /\ s[i] = "<") THEN 0
    ELSE LET j == IF i + 1 <= Len(s) /\ s[i + 1] = "/" THEN i + 2 ELSE i + 1
         IN  IF ~(j <= Len(s) /\ s[j] \in {"c", "C"}) THEN 0
             ELSE IF j + 1 <= Len(s) /\ s[j + 1] = ">" THEN j + 1 - i + 1
             ELSE IF j + 1 <= Len(s) /\ s[j + 1] = "."
                  THEN LET e == UntilGt(s, j + 2)
                       IN  IF e <= Len(s) THEN e - i + 1 ELSE 0
             ELSE 0

RECURSIVE CTagSub(_, _)
\* C_TAG_RE.sub("", line), scanning from position i
CTagSub(s, i) ==
    IF i > Len(s) THEN <<>>
    ELSE LET n == CTagLen(s, i)
         IN  IF n > 0 THEN CTagSub(s, i + n)
             ELSE <<s[i]>> \o CTagSub(s, i + 1)

\* the sentinel that replaces a per-word timestamp:  " [[TS:<ts>]] "
Sentinel(ts) == <<" ", "[", "[", "T", "S", ":">> \o ts \o <<"]", "]", " ">>

RECURSIVE TsTagSub(_, _)
\* TS_TAG_RE.sub(lambda mm: f" [[TS:{mm.group(1)}]] ", s), scanning from i
TsTagSub(s, i) ==
    IF i > Len(s) THEN <<>>
    ELSE IF TsTagAt(s, i)
         THEN Sentinel(SubSeq(s, i + 1, i + 12)) \o TsTagSub(s, i + 14)
         ELSE <<s[i]>> \o TsTagSub(s, i + 1)

\* token.startswith("[[TS:") and token.endswith("]]")
IsSentinel(token) ==
    /\ StartsWithAt(token, 1, <<"[", "[", "T", "S", ":">>)
    /\ EndsWith(token, <<"]", "]">>)

\* mutant of SentinelTime: the slice token[5:-1]
SentinelTime_ShortSlice(token) == SubSeq(token, 6, Len(token) - 1)

\* token[5:-2]
SentinelTime(token) == SubSeq(token, 6, Len(token) - 2)

\* s.split() of the line with styling removed and timestamps made sentinels
LineTokens(line) == Split(TsTagSub(CTagSub(line, 1), 1))

-----------------------------------------------------------------------------
(* Cue Segmenter: flush_sentence and the token loop *)

RECURSIVE SubSpaceBefore(_, _, _)
\* re.sub(r"\s+([cs])", r"\1", s) for the character set cs, from position i
SubSpaceBefore(s, i, cs) ==
    IF i > Len(s) THEN <<>>
    ELSE IF IsSpace(s[i])
         THEN LET j == SkipSpaces(s, i)
              IN  IF j <= Len(s) /\ s[j] \in cs
                  THEN <<s[j]>> \o SubSpaceBefore(s, j + 1, cs)
                  ELSE SubSeq(s, i, j - 1) \o SubSpaceBefore(s, j, cs)
         ELSE <<s[i]>> \o SubSpaceBefore(s, i + 1, cs)

RECURSIVE SubSpaceAfterParen(_, _)
\* re.sub(r"\(\s+", "(", s), from position i
SubSpaceAfterParen(s, i) ==
    IF i > Len(s) THEN <<>>
    ELSE IF s[i] = "(" /\ i + 1 <= Len(s) /\ IsSpace(s[i + 1])
         THEN <<"(">> \o SubSpaceAfterParen(s, SkipSpaces(s, i + 1))
         ELSE <<s[i]>> \o SubSpaceAfterParen(s, i + 1)

\* re.sub(r"\s+\)", ")", s), from position i
SubSpaceBeforeParen(s, i) == SubSpaceBefore(s, i, {")"})

\* the three substitutions of flush_sentence, in the source's order
NormalizeText(text) ==
    SubSpaceBeforeParen(
        SubSpaceAfterParen(
            SubSpaceBefore(text, 1, {",", ".", ";", "!", "?"}), 1), 1)

\* the default of flush_sentence: "00:00:00.000"
ZeroTs == <<"0", "0", ":", "0", "0", ":", "0", "0", ".", "0", "0", "0">>

\* the chain of line 894 with effective_time tried before cue_start_time
FlushStartTs_EffFirst(st) ==
    Or(st.start, Or(st.eff, Or(st.cue, ZeroTs)))

\* start_ts = current_sentence_start_time or cue_start_time
\*            or effective_time or "00:00:00.000"
FlushStartTs(st) ==
    Or(st.start, Or(st.cue, Or(st.eff, ZeroTs)))

\* f"({start_ts}) {text}"
SentenceLine(start_ts, text) == <<"(">> \o start_ts \o <<")", " ">> \o text

\* flush_sentence() on the segmenter state st =
\*   [sentences, words, start, eff, cue]
FlushSentence(st) ==
    IF st.words = <<>> THEN st
    ELSE [st EXCEPT
            !.sentences = Append(@, SentenceLine(FlushStartTs(st),
                              NormalizeText(JoinWith(<<" ">>, st.words)))),
            !.words = <<>>,
            !.start = None]

\* word.strip().endswith(tuple(".!?"))
EndsSentence(word) ==
    \E c \in {".", "!", "?"} : EndsWith(word, <<c>>)

\* line 929 with the cue time tried before the effective time
FirstWordTime_CueFirst(st) == Or(st.cue, st.eff)

\* current_sentence_start_time = effective_time or cue_start_time
FirstWordTime(st) == Or(st.eff, st.cue)

\* the body of `for token in s.split()` for one token
TokenStep(st, token) ==
    IF IsSentinel(token)
    THEN [st EXCEPT !.eff = SentinelTime(token)]
    ELSE LET st1 == IF st.start = None
                    THEN [st EXCEPT !.start = FirstWordTime(st)]
                    ELSE st
             st2 == [st1 EXCEPT !.words = Append(@, token)]
         IN  IF EndsSentence(token) THEN FlushSentence(st2) ELSE st2

RECURSIVE TokenLoop(_, _)
TokenLoop(st, tokens) ==
    IF tokens = <<>> THEN st
    ELSE TokenLoop(TokenStep(st, Head(tokens)), Tail(tokens))

\* line.strip("\ufeff\r\n"); "BOM" stands for U+FEFF
StripLine(line) == StripChars(line, {"BOM", "\r", "\n"})

\* mutant of ParseLine: lines without per-word timestamp are not skipped
ParseLine_NoFilter(rawline) ==
    LET line == StripLine(rawline)
    IN  IF CueHeaderMatch(line)
        THEN [kind |-> "header", start |-> CueHeaderStart(line), tokens |-> <<>>]
        ELSE [kind |-> "text", start |-> None, tokens |-> LineTokens(line)]

\* what the loop body finds out about one line before it touches the state:
\* a cue header, a line without per-word timestamp (ignored), or a text line
ParseLine(rawline) ==
    LET line == StripLine(rawline)
    IN  IF CueHeaderMatch(line)
        THEN [kind |-> "header", start |-> CueHeaderStart(line), tokens |-> <<>>]
        ELSE IF ~TsTagSearch(line)
        THEN [kind |-> "ignored", start |-> None, tokens |-> <<>>]
        ELSE [kind |-> "text", start |-> None, tokens |-> LineTokens(line)]

\* the effect of the loop body for a parsed line
ApplyLine(st, parsed) ==
    IF parsed.kind = "header"
    THEN [st EXCEPT !.cue = parsed.start, !.eff = parsed.start]
    ELSE IF parsed.kind = "ignored" THEN st
    ELSE TokenLoop(st, parsed.tokens)

\* the body of `for line in lines` for one line
LineStep(st, rawline) == ApplyLine(st, ParseLine(rawline))

\* the state of vtt_to_sentences before the first line
SegStart ==
    [sentences |-> <<>>, words |-> <<>>, start |-> None,
     eff |-> None, cue |-> None]

RECURSIVE LineLoop(_, _)
LineLoop(st, lines) ==
    IF lines = <<>> THEN st
    ELSE LineLoop(LineStep(st, Head(lines)), Tail(lines))

\* vtt_to_sentences(vtt_text), vtt_text given as its lines
VttToSentences(lines) == FlushSentence(LineLoop(SegStart, lines)).sentences

-----------------------------------------------------------------------------
(* Cue streams fed to the segmenter *)

DigitChar(n) == <<"0", "1", "2", "3", "4", "5", "6", "7", "8", "9">>[n + 1]

\* HH:MM:SS.mmm of a time in milliseconds, the format both regexes accept
FormatTs(ms) ==
    LET h == ms \div 3600000
        m == (ms \div 60000) % 60
        s == (ms \div 1000) % 60
        f == ms % 1000
    IN  << DigitChar(h \div 10), DigitChar(h % 10), ":",
           DigitChar(m \div 10), DigitChar(m % 10), ":",
           DigitChar(s \div 10), DigitChar(s % 10), ".",
           DigitChar(f \div 100), DigitChar((f \div 10) % 10), DigitChar(f % 10) >>

\* the time in milliseconds of an HH:MM:SS.mmm string
DigitVal(c) == CHOOSE n \in 0..9 : DigitChar(n) = c

TsToMs(ts) ==
    (DigitVal(ts[1]) * 10 + DigitVal(ts[2])) * 3600000
    + (DigitVal(ts[4]) * 10 + DigitVal(ts[5])) * 60000
    + (DigitVal(ts[7]) * 10 + DigitVal(ts[8])) * 1000
    + DigitVal(ts[10]) * 100 + DigitVal(ts[11]) * 10 + DigitVal(ts[12])

\* start times of the cue headers of the streams
HeaderTimes == {0, 1200}

\* times of the per-word markers of the streams
TagTimes == {500, 1200}

\* "no marker before this word"
NoTag == -1

\* the word texts of the streams; the last one carries styling markup
WordTexts ==
    { <<"H", "e", "l", "l", "o", ".">>,
      <<"W", "o", "r", "l", "d", "?">>,
      <<"<", "c", ">", "s", "o", "<", "/", "c", ">">> }

\* a cue header line:  <start> --> <start + 2 s>
HeaderLine(t) ==
    FormatTs(t) \o <<" ", "-", "-", ">", " ">> \o FormatTs(t + 2000)

\* a word with its optional per-word marker in front:  <ts>word
Unit(tag, w) ==
    IF tag = NoTag THEN w ELSE <<"<">> \o FormatTs(tag) \o <<">">> \o w

Units == { Unit(tag, w) : tag \in TagTimes \cup {NoTag}, w \in WordTexts }

\* text lines of one or two words
TextLines ==
    Units \cup { u[1] \o <<" ">> \o u[2] : u \in Units \X Units }

LineSet == { HeaderLine(t) : t \in HeaderTimes } \cup TextLines

\* lines whose only marker follows their word:  word<ts>
TrailingMarkerLines ==
    { w \o Unit(1200, <<>>) : w \in { <<"H", "e", "l", "l", "o", ".">>,
                                      <<"s", "o">> } }

\* a line that holds a marker and no word:  <ts>
MarkerOnlyLines == { Unit(500, <<>>) }

\* the lines of the streams that exercise the timestamps of flush_sentence:
\* headers, single words with or without a marker in front, words followed
\* by their marker, and a marker alone
FlushLineSet ==
    { HeaderLine(t) : t \in HeaderTimes }
    \cup { Unit(tag, w) : tag \in {500, NoTag},
                         w \in { <<"H", "e", "l", "l", "o", ".">>,
                                 <<"s", "o">> } }
    \cup TrailingMarkerLines \cup MarkerOnlyLines

\* ParseLine on the lines of the streams
Parsed == [l \in LineSet \cup FlushLineSet |-> ParseLine(l)]

\* the number of word tokens a line of the streams holds
WordsOfLine ==
    [l \in LineSet \cup FlushLineSet |->
        IF Parsed[l].kind = "header" THEN 0
        ELSE Cardinality({i \in 1..Len(LineTokens(l)) : ~IsSentinel(LineTokens(l)[i])})]

RECURSIVE WordsOfLines(_)
WordsOfLines(lines) ==
    IF lines = <<>> THEN 0
    ELSE WordsOfLine[Head(lines)] + WordsOfLines(Tail(lines))

-----------------------------------------------------------------------------
(* Cue Segmenter: the state machine *)

\* the local variables of vtt_to_sentences as one record
SegState ==
    [sentences |-> sentences, words |-> current_words,
     start |-> current_sentence_start_time,
     eff |-> effective_time, cue |-> cue_start_time]

SegAssign(st) ==
    /\ sentences' = st.sentences
    /\ current_words' = st.words
    /\ current_sentence_start_time' = st.start
    /\ effective_time' = st.eff
    /\ cue_start_time' = st.cue

SegInit ==
    /\ vtt_lines = <<>>
    /\ seg_pc = "loop"
    /\ sentences = SegStart.sentences
    /\ current_words = SegStart.words
    /\ current_sentence_start_time = SegStart.start
    /\ effective_time = SegStart.eff
    /\ cue_start_time = SegStart.cue
    /\ rerun_sentences = <<>>
    /\ BatIdle /\ TrIdle /\ TtsIdle /\ PIdle /\ WIdle /\ BwIdle

\* the loop reads one more line of the stream
CanRead(line) ==
    /\ seg_pc = "loop"
    /\ Len(vtt_lines) < MaxLines
    /\ WordsOfLines(vtt_lines) + WordsOfLine[line] <= MaxWords

\* a cue header: lines 904-908
SegHeaderLineOf(S) ==
    \E line \in S :
        /\ CanRead(line)
        /\ Parsed[line].kind = "header"
        /\ vtt_lines' = Append(vtt_lines, line)
        /\ SegAssign(ApplyLine(SegState, Parsed[line]))
        /\ UNCHANGED <<seg_pc, rerun_sentences>>
        /\ UNCHANGED <<batVars, trVars, ttsVars, pVars, wVars, bwVars>>

\* a line without per-word timestamp: lines 911-912
SegIgnoredLineOf(S) ==
    \E line \in S :
        /\ CanRead(line)
        /\ Parsed[line].kind = "ignored"
        /\ vtt_lines' = Append(vtt_lines, line)
        /\ SegAssign(ApplyLine(SegState, Parsed[line]))
        /\ UNCHANGED <<seg_pc, rerun_sentences>>
        /\ UNCHANGED <<batVars, trVars, ttsVars, pVars, wVars, bwVars>>

\* a text line: lines 915-936
SegTextLineOf(S) ==
    \E line \in S :
        /\ CanRead(line)
        /\ Parsed[line].kind = "text"
        /\ vtt_lines' = Append(vtt_lines, line)
        /\ SegAssign(ApplyLine(SegState, Parsed[line]))
        /\ UNCHANGED <<seg_pc, rerun_sentences>>
        /\ UNCHANGED <<batVars, trVars, ttsVars, pVars, wVars, bwVars>>

\* end of input: the closing flush_sentence() and the return, lines 939-940
SegEnd ==
    /\ seg_pc = "loop"
    /\ SegAssign(FlushSentence(SegState))
    /\ seg_pc' = "done"
    /\ UNCHANGED <<vtt_lines, rerun_sentences>>
    /\ UNCHANGED <<batVars, trVars, ttsVars, pVars, wVars, bwVars>>

RECURSIVE OutputLines(_)
\* the lines of the text written from the sentences: each followed by "\n\n"
OutputLines(sents) ==
    IF sents = <<>> THEN <<>>
    ELSE <<Head(sents), <<>>>> \o OutputLines(Tail(sents))

\* vtt_to_sentences run again, on the text of its own output
SegRerun ==
    /\ seg_pc = "done"
    /\ rerun_sentences' = VttToSentences(OutputLines(sentences))
    /\ seg_pc' = "rerun"
    /\ UNCHANGED <<vtt_lines, sentences, current_words,
                   current_sentence_start_time, effective_time, cue_start_time>>
    /\ UNCHANGED <<batVars, trVars, ttsVars, pVars, wVars, bwVars>>

SegHeaderLine == SegHeaderLineOf(LineSet)

SegIgnoredLine == SegIgnoredLineOf(LineSet)

SegTextLine == SegTextLineOf(LineSet)

SegNext == SegHeaderLine \/ SegIgnoredLine \/ SegTextLine \/ SegEnd \/ SegRerun

SpecSeg == SegInit /\ [][SegNext]_vars

\* the segmenter on the streams of FlushLineSet
SegFlushHeaderLine == SegHeaderLineOf(FlushLineSet)

SegFlushIgnoredLine == SegIgnoredLineOf(FlushLineSet)

SegFlushTextLine == SegTextLineOf(FlushLineSet)

SegFlushNext ==
    SegFlushHeaderLine \/ SegFlushIgnoredLine \/ SegFlushTextLine
       \/ SegEnd \/ SegRerun

SpecSegFlush == SegInit /\ [][SegFlushNext]_vars

-----------------------------------------------------------------------------
(* Cue Segmenter: claims *)

\* the start timestamp written at the head of a sentence, "(ts) text"
SentenceTs(s) == SubSeq(s, 2, 13)

RECURSIVE TokenTimes(_)
\* the per-word marker times of a token list, in order
TokenTimes(tokens) ==
    IF tokens = <<>> THEN <<>>
    ELSE (IF IsSentinel(Head(tokens))
          THEN <<TsToMs(SentinelTime(Head(tokens)))>> ELSE <<>>)
         \o TokenTimes(Tail(tokens))

RECURSIVE StreamTimes(_)
\* cue-header start times and per-word marker times of a stream, in file order
StreamTimes(lines) ==
    IF lines = <<>> THEN <<>>
    ELSE (IF Parsed[Head(lines)].kind = "header"
          THEN <<TsToMs(SubSeq(Head(lines), 1, 12))>>
          ELSE TokenTimes(Split(TsTagSub(Head(lines), 1))))
         \o StreamTimes(Tail(lines))

NonDecreasing(seq) == \A i \in 1..Len(seq) - 1 : seq[i] <= seq[i + 1]

\* a well-formed cue stream: header starts and markers never go back in time
WellFormed(lines) == NonDecreasing(StreamTimes(lines))

SentenceTimes(sents) == [i \in 1..Len(sents) |-> TsToMs(SentenceTs(sents[i]))]

IsPrefix(a, b) == Len(a) <= Len(b) /\ SubSeq(b, 1, Len(a)) = a

\* C1: for a well-formed cue stream the emitted sentences carry
\* non-decreasing start timestamps, and sentences are only ever appended,
\* in the order the input is traversed.
C1_SentencesInTimeOrder ==
    /\ [](WellFormed(vtt_lines) => NonDecreasing(SentenceTimes(sentences)))
    /\ [][IsPrefix(sentences, sentences')]_vars

\* witness of C1: a finished well-formed stream with a header and markers
\* that gave two sentences at two different times
C1_Witness ==
    /\ seg_pc = "done"
    /\ WellFormed(vtt_lines)
    /\ Len(sentences) = 2
    /\ \E i \in 1..Len(vtt_lines) : Parsed[vtt_lines[i]].kind = "header"
    /\ SentenceTimes(sentences)[1] < SentenceTimes(sentences)[2]

\* the cue stream of the scenario:
\*   00:00:00.000 --> 00:00:02.000
\*   <00:00:00.500>Hello. <00:00:01.200>World?
ScenarioStream ==
    << <<"0","0",":","0","0",":","0","0",".","0","0","0",
         " ","-","-",">"," ",
         "0","0",":","0","0",":","0","2",".","0","0","0">>,
       <<"<","0","0",":","0","0",":","0","0",".","5","0","0",">",
         "H","e","l","l","o","."," ",
         "<","0","0",":","0","0",":","0","1",".","2","0","0",">",
         "W","o","r","l","d","?">> >>

\*   (00:00:00.500) Hello.
\*   (00:00:01.200) World?
ScenarioSentences ==
    << <<"(","0","0",":","0","0",":","0","0",".","5","0","0",")"," ",
         "H","e","l","l","o",".">>,
       <<"(","0","0",":","0","0",":","0","1",".","2","0","0",")"," ",
         "W","o","r","l","d","?">> >>

\* C2: segmenting the scenario stream yields exactly the two sentences
\* (00:00:00.500) Hello. and (00:00:01.200) World?, in this order.
C2_Scenario ==
    (seg_pc /= "loop" /\ vtt_lines = ScenarioStream)
        => sentences = ScenarioSentences

\* witness of C2: the scenario stream has been segmented
C2_Witness ==
    /\ seg_pc = "done"
    /\ vtt_lines = ScenarioStream
    /\ Len(sentences) = 2

\* C3 as stated: the segmenter run on its own output text returns the same
\* sentences.
C3_RerunIdempotent ==
    seg_pc = "rerun" => rerun_sentences = sentences

\* C3 amended: the segmenter run on its own output text returns no sentence:
\* no line "(ts) text" is a cue header or carries a per-word marker.
C3_RerunEmpty ==
    seg_pc = "rerun" => rerun_sentences = <<>>

\* witness of C3: a rerun on an output of two sentences
C3_Witness ==
    /\ seg_pc = "rerun"
    /\ Len(sentences) = 2
    /\ rerun_sentences = <<>>

-----------------------------------------------------------------------------
(* Batch Planner: the batching loop of translate_subtitles_from_vtt          *)
(* (app.py 960-977) and of the translation tab (app.py 1752-1769), which are *)
(* the same code.  A paragraph is a sentence line; the planner reads only    *)
(* its length, so a paragraph is modelled as [id, len].                      *)

\* the character bound C of the batching loop
MaxChars == 2000

\* lengths of the paragraphs tried
ParLens == {1, 1000, 1001, 2001}

RECURSIVE SumLen(_)
SumLen(batch) ==
    IF batch = <<>> THEN 0 ELSE Head(batch).len + SumLen(Tail(batch))

\* len("\n".join(current_batch)): the text submitted for translation
JoinedLen(batch) ==
    IF batch = <<>> THEN 0 ELSE SumLen(batch) + (Len(batch) - 1)

\* "\n".join(current_batch), kept as its paragraphs and its length
JoinBatch(batch) == [items |-> batch, text_len |-> JoinedLen(batch)]

\* mutant of MustClose: the sentence bound tested with > instead of >=
MustClose_OffByOne(batch, count, par_len, n) ==
    \/ Len(batch) > n
    \/ (count + par_len > MaxChars /\ batch /= <<>>)

\* the condition of the if at line 966
MustClose(batch, count, par_len, n) ==
    \/ Len(batch) >= n
    \/ (count + par_len > MaxChars /\ batch /= <<>>)

BatInit ==
    /\ bat_pc = "loop"
    /\ cfg_seg_size \in 1..MaxSegSize
    /\ paragraphs = <<>>
    /\ batched_paragraphs = <<>>
    /\ current_batch = <<>>
    /\ current_char_count = 0
    /\ SegIdle /\ TrIdle /\ TtsIdle /\ PIdle /\ WIdle /\ BwIdle

\* the loop takes the next paragraph
NextParagraph(n) == [id |-> Len(paragraphs) + 1, len |-> n]

\* lines 966-970: the batch is closed and the paragraph opens a new one
BatClose ==
    \E n \in ParLens :
        /\ bat_pc = "loop"
        /\ Len(paragraphs) < MaxParagraphs
        /\ MustClose(current_batch, current_char_count, n, cfg_seg_size)
        /\ paragraphs' = Append(paragraphs, NextParagraph(n))
        /\ batched_paragraphs' = Append(batched_paragraphs, JoinBatch(current_batch))
        /\ current_batch' = <<NextParagraph(n)>>
        /\ current_char_count' = n
        /\ UNCHANGED <<bat_pc, cfg_seg_size>>
        /\ UNCHANGED <<segVars, trVars, ttsVars, pVars, wVars, bwVars>>

\* lines 971-973: the paragraph joins the current batch
BatAppend ==
    \E n \in ParLens :
        /\ bat_pc = "loop"
        /\ Len(paragraphs) < MaxParagraphs
        /\ ~MustClose(current_batch, current_char_count, n, cfg_seg_size)
        /\ paragraphs' = Append(paragraphs, NextParagraph(n))
        /\ current_batch' = Append(current_batch, NextParagraph(n))
        /\ current_char_count' = current_char_count + n
        /\ UNCHANGED <<bat_pc, cfg_seg_size, batched_paragraphs>>
        /\ UNCHANGED <<segVars, trVars, ttsVars, pVars, wVars, bwVars>>

\* the end of the loop without lines 975-977: the batch still open when the
\* paragraphs run out is not appended
BatFinish_DropsLast ==
    /\ bat_pc = "loop"
    /\ batched_paragraphs' = batched_paragraphs
    /\ bat_pc' = "done"
    /\ UNCHANGED <<cfg_seg_size, paragraphs, current_batch, current_char_count>>
    /\ UNCHANGED <<segVars, trVars, ttsVars, pVars, wVars, bwVars>>

\* lines 975-977: after the loop the last batch is closed
BatFinish ==
    /\ bat_pc = "loop"
    /\ batched_paragraphs' =
          IF current_batch /= <<>>
          THEN Append(batched_paragraphs, JoinBatch(current_batch))
          ELSE batched_paragraphs
    /\ bat_pc' = "done"
    /\ UNCHANGED <<cfg_seg_size, paragraphs, current_batch, current_char_count>>
    /\ UNCHANGED <<segVars, trVars, ttsVars, pVars, wVars, bwVars>>

BatNext == BatClose \/ BatAppend \/ BatFinish

SpecBatch == BatInit /\ [][BatNext]_vars

-----------------------------------------------------------------------------
(* Batch Planner: claims *)

\* C4: no batch holds more than N sentences.
C4_BatchAtMostN ==
    \A b \in 1..Len(batched_paragraphs) :
        Len(batched_paragraphs[b].items) <= cfg_seg_size

\* witness of C4: with N = 2, a finished plan whose first batch was closed
\* by the sentence bound alone
C4_Witness ==
    /\ bat_pc = "done"
    /\ cfg_seg_size = 2
    /\ Len(batched_paragraphs) >= 2
    /\ Len(batched_paragraphs[1].items) = 2
    /\ SumLen(batched_paragraphs[1].items) + paragraphs[3].len <= MaxChars

\* C5: a batch whose submitted text (the newline-joined sentences) is longer
\* than C = 2000 characters contains exactly one sentence.
C5_OverlongOnlyIfSingle ==
    \A b \in 1..Len(batched_paragraphs) :
        batched_paragraphs[b].text_len > MaxChars
            => Len(batched_paragraphs[b].items) = 1

-----------------------------------------------------------------------------
(* Translation of the batches: translate_batch, the thread pool and the     *)
(* result collection of translate_subtitles_from_vtt (app.py 981-1044,      *)
(* variant "workflow") and of the translation tab (app.py 1773-1836,        *)
(* variant "tab2").                                                         *)

\* how the request of one batch can end
TrOutcomes == {"ok", "ok_error_text", "raised"}

\* translate_batch(batch, batch_index): the returned string, kept as
\*   kind         "translation" (the model's answer) or "error_message"
\*                (the f"Error: {str(e)}" of the except branch)
\*   batch        the batch it belongs to
\*   error_prefix whether the string starts with "Error:"
\* outcome "ok_error_text" is an answer whose own text starts with "Error:"
TranslateBatch(i, outcome) ==
    IF outcome = "raised"
    THEN [kind |-> "error_message", batch |-> i, error_prefix |-> TRUE]
    ELSE [kind |-> "translation", batch |-> i,
          error_prefix |-> (outcome = "ok_error_text")]

\* the value of tr_result for a batch whose call has not returned
NoResult == [kind |-> "none", batch |-> 0, error_prefix |-> FALSE]

\* f"翻译失败的分段 {i+1}"
Placeholder(i) == [kind |-> "placeholder", batch |-> i, error_prefix |-> FALSE]

\* nothing has been handed to the caller yet
NoReport == [file |-> "none", step |-> "running", success |-> {}, failed |-> {}]

Batches == DOMAIN tr_job

TrInit ==
    /\ tr_pc = "pool"
    /\ tr_variant \in {"workflow", "tab2"}
    /\ \E n \in 0..MaxBatches :
          /\ tr_job = [i \in 1..n |-> "queued"]
          /\ tr_result = [i \in 1..n |-> NoResult]
    /\ translated_results = <<>>
    /\ translated_paragraphs = <<>>
    /\ failed_count = 0
    /\ tr_report = NoReport
    /\ SegIdle /\ BatIdle /\ TtsIdle /\ PIdle /\ WIdle /\ BwIdle

\* a pool thread takes the batch (executor.submit, line 1019)
TrStart(i) ==
    /\ tr_pc = "pool"
    /\ tr_job[i] = "queued"
    /\ tr_job' = [tr_job EXCEPT ![i] = "running"]
    /\ UNCHANGED <<tr_pc, tr_variant, tr_result, translated_results,
                   translated_paragraphs, failed_count, tr_report>>
    /\ UNCHANGED <<segVars, batVars, ttsVars, pVars, wVars, bwVars>>

\* translate_batch returns in its thread (lines 981-1015)
TrFinish(i, outcome) ==
    /\ tr_pc = "pool"
    /\ tr_job[i] = "running"
    /\ tr_job' = [tr_job EXCEPT ![i] = "completed"]
    /\ tr_result' = [tr_result EXCEPT ![i] = TranslateBatch(i, outcome)]
    /\ UNCHANGED <<tr_pc, tr_variant, translated_results,
                   translated_paragraphs, failed_count, tr_report>>
    /\ UNCHANGED <<segVars, batVars, ttsVars, pVars, wVars, bwVars>>

\* mutant of Kept: every result is kept
Kept_All(result) == TRUE

\* the test of line 1023: not result.startswith("Error:")
Kept(result) == ~result.error_prefix

\* one turn of `for future in as_completed(futures)` (lines 1020-1024)
TrCollect(i) ==
    /\ tr_pc = "pool"
    /\ tr_job[i] = "completed"
    /\ tr_job' = [tr_job EXCEPT ![i] = "collected"]
    /\ translated_results' =
          IF Kept(tr_result[i])
          THEN translated_results @@ (i :> tr_result[i])
          ELSE translated_results
    /\ UNCHANGED <<tr_pc, tr_variant, tr_result,
                   translated_paragraphs, failed_count, tr_report>>
    /\ UNCHANGED <<segVars, batVars, ttsVars, pVars, wVars, bwVars>>

\* the with block of the executor ends once every future has been taken
TrPoolDone ==
    /\ tr_pc = "pool"
    /\ \A i \in Batches : tr_job[i] = "collected"
    /\ tr_pc' = "assemble"
    /\ UNCHANGED <<tr_variant, tr_job, tr_result, translated_results,
                   translated_paragraphs, failed_count, tr_report>>
    /\ UNCHANGED <<segVars, batVars, ttsVars, pVars, wVars, bwVars>>

RECURSIVE Assemble(_, _, _, _)
\* the loop `for i in range(len(batched_paragraphs))`, from batch i on:
\* lines 1028-1033 append a placeholder for a missing batch,
\* lines 1824-1828 (tab2) append nothing for it
Assemble(i, n, results, variant) ==
    IF i > n THEN [list |-> <<>>, failed |-> 0]
    ELSE LET rest == Assemble(i + 1, n, results, variant)
         IN  IF i \in DOMAIN results
             THEN [list |-> <<results[i]>> \o rest.list, failed |-> rest.failed]
             ELSE [list |-> (IF variant = "workflow" THEN <<Placeholder(i)>> ELSE <<>>)
                            \o rest.list,
                   failed |-> rest.failed + 1]

\* lines 1026-1033 / 1821-1828
TrAssemble ==
    /\ tr_pc = "assemble"
    /\ LET a == Assemble(1, Len(tr_job), translated_results, tr_variant)
       IN  /\ translated_paragraphs' = a.list
           /\ failed_count' = a.failed
    /\ tr_pc' = "returned"
    /\ UNCHANGED <<tr_variant, tr_job, tr_result, translated_results, tr_report>>
    /\ UNCHANGED <<segVars, batVars, ttsVars, pVars, wVars, bwVars>>

\* what reaches the caller once the file is written:
\*  workflow: translate_subtitles_from_vtt prints failed_count (line 1036) and
\*            returns the file path (line 1044); background_workflow_task sets
\*            the step to "success" with the file name (line 394)
\*  tab2:     st.success shows both counts (line 1836)
ReportOf(variant, list, failed) ==
    IF variant = "workflow"
    THEN [file |-> "final_output_file", step |-> "success",
          success |-> {}, failed |-> {}]
    ELSE [file |-> "output_translated_file", step |-> "success",
          success |-> {Len(list)}, failed |-> {failed}]

\* lines 1038-1044 and 394 / lines 1830-1837
TrReport ==
    /\ tr_pc = "returned"
    /\ tr_report' = ReportOf(tr_variant, translated_paragraphs, failed_count)
    /\ tr_pc' = "reported"
    /\ UNCHANGED <<tr_variant, tr_job, tr_result, translated_results,
                   translated_paragraphs, failed_count>>
    /\ UNCHANGED <<segVars, batVars, ttsVars, pVars, wVars, bwVars>>

TrNext ==
    \/ \E i \in Batches : TrStart(i)
    \/ \E i \in Batches : \E o \in TrOutcomes : TrFinish(i, o)
    \/ \E i \in Batches : TrCollect(i)
    \/ TrPoolDone
    \/ TrAssemble
    \/ TrReport

SpecTr == TrInit /\ [][TrNext]_vars

-----------------------------------------------------------------------------
(* Translation: claims *)

\* the batches whose translate_batch call raised
ErroredBatches == {i \in Batches : tr_result[i].kind = "error_message"}

\* the entries of the output that stand for batch i
EntriesOf(i) ==
    {k \in 1..Len(translated_paragraphs) : translated_paragraphs[k].batch = i}

\* C9: when a translation batch errors out, the run completes, the batch is
\* replaced by a single placeholder segment and the failure count reported
\* to the caller is non-zero.
C9_FailureReported ==
    (tr_pc = "reported" /\ ErroredBatches /= {})
        => /\ \A i \in ErroredBatches :
                /\ Cardinality(EntriesOf(i)) = 1
                /\ \A k \in EntriesOf(i) :
                      translated_paragraphs[k].kind = "placeholder"
           /\ \E k \in tr_report.failed : k > 0

-----------------------------------------------------------------------------
(* text_to_speech: the retry loop (tts_runner.py 15-43, the same code as    *)
(* worker_utils.py 8-39).  Times are in milliseconds.                       *)

\* max_retries, the default of the parameter; no caller passes another value
MaxRetries == 5

\* base_delay = 1 second
BaseDelayMs == 1000

\* random.random() * 0.5 seconds lies in [0, 0.5): the values tried, in ms
Jitters == {0, 250, 499}

\* the error classes of a failed communicate.save, by what str(e).lower()
\* contains: "503", "timeout", "connection", or none of them
ErrorClasses == {"503", "timeout", "connection", "other"}

\* line 35 with every error class taken as retryable
Retryable_All(e) == TRUE

\* line 35: "503" in error_msg or "timeout" in error_msg or "connection" in error_msg
Retryable(e) == e \in {"503", "timeout", "connection"}

RECURSIVE Pow2(_)
Pow2(n) == IF n <= 0 THEN 1 ELSE 2 * Pow2(n - 1)

\* line 25 with a delay that grows by base_delay per retry instead of doubling
BackoffDelay_Linear(rc, jitter) == BaseDelayMs * rc + jitter

\* line 25: base_delay * (2 ** (retry_count - 1)) + random.random() * 0.5
BackoffDelay(rc, jitter) == BaseDelayMs * Pow2(rc - 1) + jitter

\* line 22: while retry_count <= max_retries
LoopGuard(rc) == rc <= MaxRetries

\* mutant of RetryAllowed: one retry too many is allowed
RetryAllowed_OffByOne(rc) == rc <= MaxRetries + 1

\* line 36: if retry_count <= max_retries (after the increment of line 34)
RetryAllowed(rc) == rc <= MaxRetries

TtsInit ==
    /\ tts_pc = "top"
    /\ retry_count = 0
    /\ tts_calls = 0
    /\ tts_delay = 0
    /\ tts_outcome = "none"
    /\ SegIdle /\ BatIdle /\ TrIdle /\ PIdle /\ WIdle /\ BwIdle

\* lines 22-27: the loop test, then the first attempt goes straight to the
\* call and a retry first computes its delay; a false test leaves the loop
\* and the function returns None
TtsLoopTest ==
    /\ tts_pc = "top"
    /\ IF LoopGuard(retry_count)
       THEN IF retry_count > 0
            THEN \E j \in Jitters :
                    /\ tts_delay' = BackoffDelay(retry_count, j)
                    /\ tts_pc' = "sleep"
            ELSE /\ tts_pc' = "call"
                 /\ UNCHANGED tts_delay
       ELSE /\ tts_pc' = "returned"
            /\ UNCHANGED tts_delay
    /\ UNCHANGED <<retry_count, tts_calls, tts_outcome>>
    /\ UNCHANGED <<segVars, batVars, trVars, pVars, wVars, bwVars>>

\* line 27: await asyncio.sleep(delay) is over
TtsSleepDone ==
    /\ tts_pc = "sleep"
    /\ tts_pc' = "call"
    /\ UNCHANGED <<retry_count, tts_calls, tts_delay, tts_outcome>>
    /\ UNCHANGED <<segVars, batVars, trVars, pVars, wVars, bwVars>>

\* lines 28-31: communicate.save succeeds
TtsCallOk ==
    /\ tts_pc = "call"
    /\ tts_calls' = tts_calls + 1
    /\ tts_outcome' = "ok"
    /\ tts_pc' = "returned"
    /\ UNCHANGED <<retry_count, tts_delay>>
    /\ UNCHANGED <<segVars, batVars, trVars, pVars, wVars, bwVars>>

\* lines 32-43: communicate.save raises an error of class e
TtsCallFails(e) ==
    /\ tts_pc = "call"
    /\ tts_calls' = tts_calls + 1
    /\ tts_outcome' = e
    /\ retry_count' = retry_count + 1
    /\ tts_pc' = IF Retryable(e) /\ RetryAllowed(retry_count + 1)
                 THEN "top" ELSE "raised"
    /\ UNCHANGED tts_delay
    /\ UNCHANGED <<segVars, batVars, trVars, pVars, wVars, bwVars>>

TtsNext ==
    \/ TtsLoopTest
    \/ TtsSleepDone
    \/ TtsCallOk
    \/ \E e \in ErrorClasses : TtsCallFails(e)

SpecTts == TtsInit /\ [][TtsNext]_vars

\* the event loop runs the coroutine on: a sleep ends, and a call returns or
\* raises
SpecTtsFair == SpecTts /\ WF_vars(TtsNext)

-----------------------------------------------------------------------------
(* text_to_speech: claims *)

TtsEnded == tts_pc \in {"returned", "raised"}

\* C10: a synthesis call is attempted at most 6 times (5 retries); when the
\* 6th attempt fails as well the error propagates; and text_to_speech always
\* ends, by returning after a successful attempt or by raising.
C10_RetryCeiling ==
    /\ [](tts_calls <= MaxRetries + 1 /\ retry_count <= MaxRetries + 1)
    /\ []((tts_calls = MaxRetries + 1 /\ tts_outcome /= "ok") => tts_pc = "raised")
    /\ [](tts_pc = "returned" => tts_outcome = "ok")
    /\ <>TtsEnded

\* witness of C10: five retries after retryable errors, the sixth attempt
\* fails too and the error is raised
C10_Witness ==
    /\ tts_pc = "raised"
    /\ tts_calls = 6
    /\ retry_count = 6
    /\ tts_outcome = "503"
    /\ tts_delay >= 16000

-----------------------------------------------------------------------------
(* process_tts (tts_runner.py): synthesis of the segments, the Overlap
   Resolver and the Timeline Mixer.  Times and lengths are in milliseconds.
   An audio clip is a record [txt, len, tempo]: the text it is the synthesis
   of, its length, and the tempo factor applied to it as a fraction
   <<num, den>>.  The temp directory is the function `files` from file
   names to the audio they hold. *)

\* segments of the translated text
MaxSegs == 3

\* line 182: an overlap of up to 100 ms is left alone
OverlapTolerance == 100

\* line 183: the adjusted clip is to end 50 ms before the next one starts
SafetyBuffer == 50

\* line 184: no adjustment towards a target of 100 ms or less
MinTarget == 100

\* line 185: the tempo factor is capped at 2.0
MaxTempo == 2

\* timestamps of the segments, as the "(HH:MM:SS.mmm)" the segmenter writes
SegTimes == {0, 1000}

\* texts of the segments
Texts == {"short", "long", "longer"}

\* length of the audio the speech service returns for a text
TtsLen(txt) ==
    CASE txt = "short" -> 1000
      [] txt = "long" -> 1500
      [] OTHER -> 2500

NoTempo == <<1, 1>>

\* what communicate.save writes for a text (text_to_speech, line 30)
Synthesize(txt) == [txt |-> txt, len |-> TtsLen(txt), tempo |-> NoTempo]

SegmentSet == [timestamp : {FormatTs(t) : t \in SegTimes}, txt : Texts]

\* \w of the re module, on the characters the model uses
IsWordChar(c) == c \in Digits \cup {"_"}

RECURSIVE CleanFrom(_, _, _)
\* re.sub(r'[^\w\d]+', '_', s) from position i; inRun: the previous
\* character was part of a run already replaced
CleanFrom(s, i, inRun) ==
    IF i > Len(s) THEN <<>>
    ELSE IF IsWordChar(s[i]) THEN <<s[i]>> \o CleanFrom(s, i + 1, FALSE)
    ELSE (IF inRun THEN <<>> ELSE <<"_">>) \o CleanFrom(s, i + 1, TRUE)

Mp3 == <<".", "m", "p", "3">>

SpeedMp3 == <<"_", "s", "p", "e", "e", "d", ".", "m", "p", "3">>

\* process_segment, lines 76-78: the file of a segment, inside temp_dir
FileName(timestamp) == CleanFrom(timestamp, 1, FALSE) \o Mp3

RECURSIVE ReplaceMp3(_, _)
\* path.replace('.mp3', '_speed.mp3') from position i
ReplaceMp3(s, i) ==
    IF i > Len(s) THEN <<>>
    ELSE IF StartsWithAt(s, i, Mp3) THEN SpeedMp3 \o ReplaceMp3(s, i + Len(Mp3))
    ELSE <<s[i]>> \o ReplaceMp3(s, i + 1)

SpeedFile(path) == ReplaceMp3(path, 1)

\* parse_timestamp of "(HH:MM:SS.mmm)": hours, minutes, seconds and
\* milliseconds are all present
ParseTimestamp(timestamp) == TsToMs(timestamp)

\* os.path.exists
Exists(fs, path) == path \in DOMAIN fs

WriteFile(fs, path, audio) == (path :> audio) @@ fs

RemoveFiles(fs, paths) == [p \in (DOMAIN fs) \ paths |-> fs[p]]

\* audio_files[i] is None
NoAudioFile == [file |-> None, time_ms |-> 0]

\* the result process_segment returns for segment i when it succeeds
AudioFileOf(i) ==
    [file |-> FileName(segments[i].timestamp),
     time_ms |-> ParseTimestamp(segments[i].timestamp)]

\* lines 142-148: one task per segment, no result yet; the temp directory
\* holds no clip file
PInit ==
    /\ p_pc = "synth"
    /\ content = <<>>
    /\ segments \in UNION {[1..n -> SegmentSet] : n \in 0..MaxSegs}
    /\ synth = [i \in 1..Len(segments) |-> "queued"]
    /\ audio_files = [i \in 1..Len(segments) |-> NoAudioFile]
    /\ files = <<>>
    /\ processed_audio_segments = <<>>
    /\ speed_adjust_tasks_list = <<>>
    /\ adjust = <<>>
    /\ final_audio_segments = <<>>
    /\ combined_audio = <<>>
    /\ current_pos = 0
    /\ output_mp3 = None
    /\ returncode = "none"
    /\ mp3_file_path = "pending"
    /\ SegIdle /\ BatIdle /\ TrIdle /\ TtsIdle /\ WIdle /\ BwIdle

\* process_segment in a pool process, lines 74-85, and the as_completed
\* loop taking its result, lines 153-158: the speech is written to the file
\* of the segment's timestamp, and the file is recorded if it exists
ProcessSegmentOk(i) ==
    /\ p_pc = "synth"
    /\ synth[i] = "queued"
    /\ LET written == WriteFile(files, FileName(segments[i].timestamp),
                                Synthesize(segments[i].txt))
       IN  /\ files' = written
           /\ audio_files' =
                IF Exists(written, AudioFileOf(i).file)
                THEN [audio_files EXCEPT ![i] = AudioFileOf(i)]
                ELSE audio_files
    /\ synth' = [synth EXCEPT ![i] = "ok"]
    /\ UNCHANGED <<p_pc, segments, processed_audio_segments,
                   speed_adjust_tasks_list, adjust, final_audio_segments,
                   combined_audio, current_pos, output_mp3>>
    /\ UNCHANGED <<returncode, mp3_file_path>>
    /\ UNCHANGED <<content, segVars, batVars, trVars, ttsVars, wVars, bwVars>>

\* process_segment, lines 86-87, and lines 153-158: run_text_to_speech
\* raised, the result has no file and audio_files[i] stays None
ProcessSegmentFails(i) ==
    /\ p_pc = "synth"
    /\ synth[i] = "queued"
    /\ synth' = [synth EXCEPT ![i] = "failed"]
    /\ UNCHANGED <<p_pc, segments, files, audio_files, processed_audio_segments,
                   speed_adjust_tasks_list, adjust, final_audio_segments,
                   combined_audio, current_pos, output_mp3>>
    /\ UNCHANGED <<returncode, mp3_file_path>>
    /\ UNCHANGED <<content, segVars, batVars, trVars, ttsVars, wVars, bwVars>>

\* the file communicate.save leaves when it raises after it has opened the
\* output file: nothing playable
Truncated(txt) == [txt |-> txt, len |-> 0, tempo |-> NoTempo]

\* process_segment, lines 86-87, and lines 153-158: run_text_to_speech
\* raised in communicate.save, which had already opened the output file for
\* writing; the result has no file and audio_files[i] stays None
ProcessSegmentFailsFileLeft(i) ==
    /\ p_pc = "synth"
    /\ synth[i] = "queued"
    /\ files' = WriteFile(files, FileName(segments[i].timestamp),
                          Truncated(segments[i].txt))
    /\ synth' = [synth EXCEPT ![i] = "failed"]
    /\ UNCHANGED <<p_pc, segments, audio_files, processed_audio_segments,
                   speed_adjust_tasks_list, adjust, final_audio_segments,
                   combined_audio, current_pos, output_mp3>>
    /\ UNCHANGED <<returncode, mp3_file_path>>
    /\ UNCHANGED <<content, segVars, batVars, trVars, ttsVars, wVars, bwVars>>

\* the pool process running process_segment for segment i dies (killed, out
\* of memory): the pool is broken, every future that has not completed
\* raises BrokenProcessPool, and future.result() at line 154, which is not
\* inside a try, ends process_tts with that exception
ProcessSegmentCrash(i) ==
    /\ p_pc = "synth"
    /\ synth[i] = "queued"
    /\ synth' = [synth EXCEPT ![i] = "crashed"]
    /\ p_pc' = "raised"
    /\ UNCHANGED <<segments, files, audio_files, processed_audio_segments,
                   speed_adjust_tasks_list, adjust, final_audio_segments,
                   combined_audio, current_pos, output_mp3>>
    /\ UNCHANGED <<returncode, mp3_file_path>>
    /\ UNCHANGED <<content, segVars, batVars, trVars, ttsVars, wVars, bwVars>>

\* line 150 with the pool left before the futures have completed
AllCollected_NoWait == TRUE

\* line 150: the pool is left when every future has completed
AllCollected == \A i \in 1..Len(synth) : synth[i] /= "queued"

RECURSIVE NotNone(_)
\* line 160: [af for af in audio_files if af is not None]
NotNone(afs) ==
    IF afs = <<>> THEN <<>>
    ELSE (IF Head(afs) = NoAudioFile THEN <<>> ELSE <<Head(afs)>>)
         \o NotNone(Tail(afs))

RECURSIVE InsertByTime(_, _)
\* x put behind the entries that are not later than it
InsertByTime(x, s) ==
    IF s = <<>> THEN <<x>>
    ELSE IF x.time_ms < Head(s).time_ms THEN <<x>> \o s
    ELSE <<Head(s)>> \o InsertByTime(x, Tail(s))

RECURSIVE SortByTime(_)
\* line 163: list.sort(key=time_ms), which is stable
SortByTime(s) ==
    IF s = <<>> THEN <<>>
    ELSE InsertByTime(s[Len(s)], SortByTime(SubSeq(s, 1, Len(s) - 1)))

\* lines 160-165: no segment was synthesized, nothing is written
PNoAudio ==
    /\ p_pc = "synth"
    /\ AllCollected
    /\ NotNone(audio_files) = <<>>
    /\ audio_files' = <<>>
    /\ p_pc' = "done"
    /\ UNCHANGED <<segments, synth, files, processed_audio_segments,
                   speed_adjust_tasks_list, adjust, final_audio_segments,
                   combined_audio, current_pos, output_mp3>>
    /\ UNCHANGED <<returncode, mp3_file_path>>
    /\ UNCHANGED <<content, segVars, batVars, trVars, ttsVars, wVars, bwVars>>

\* AudioSegment.from_file can decode the file
Playable(audio) == audio.len > 0

\* lines 160-171: a recorded file cannot be decoded, AudioSegment.from_file
\* raises and process_tts ends with the exception
PLoadAudioFails ==
    /\ p_pc = "synth"
    /\ AllCollected
    /\ \E i \in 1..Len(NotNone(audio_files)) :
          ~Playable(files[NotNone(audio_files)[i].file])
    /\ audio_files' = SortByTime(NotNone(audio_files))
    /\ p_pc' = "raised"
    /\ UNCHANGED <<segments, synth, files, processed_audio_segments,
                   speed_adjust_tasks_list, adjust, final_audio_segments,
                   combined_audio, current_pos, output_mp3>>
    /\ UNCHANGED <<returncode, mp3_file_path>>
    /\ UNCHANGED <<content, segVars, batVars, trVars, ttsVars, wVars, bwVars>>

\* lines 160-172: the files are sorted by time and loaded
PLoadAudio ==
    /\ p_pc = "synth"
    /\ AllCollected
    /\ NotNone(audio_files) /= <<>>
    /\ \A i \in 1..Len(NotNone(audio_files)) :
          Playable(files[NotNone(audio_files)[i].file])
    /\ LET sorted == SortByTime(NotNone(audio_files))
       IN  /\ audio_files' = sorted
           /\ processed_audio_segments' =
                [i \in 1..Len(sorted) |->
                    [file |-> sorted[i].file, time_ms |-> sorted[i].time_ms,
                     audio |-> files[sorted[i].file]]]
    /\ p_pc' = "detect"
    /\ UNCHANGED <<segments, synth, files, speed_adjust_tasks_list, adjust,
                   final_audio_segments, combined_audio, current_pos,
                   output_mp3>>
    /\ UNCHANGED <<returncode, mp3_file_path>>
    /\ UNCHANGED <<content, segVars, batVars, trVars, ttsVars, wVars, bwVars>>

\* line 183 without the safety buffer
Target_NoBuffer(next_start, time_ms) == next_start - time_ms

\* line 183
Target(next_start, time_ms) == next_start - time_ms - SafetyBuffer

\* line 185 without the cap of 2.0
Factor_Uncapped(current_len, target) == <<current_len, target>>

\* line 185 with a cap of 1.5 in place of 2.0
Factor_LowCap(current_len, target) ==
    IF 2 * current_len >= 3 * target THEN <<3, 2>>
    ELSE <<current_len, target>>

\* line 185: min(current_len / target, 2.0) for target > 0, as a fraction
Factor(current_len, target) ==
    IF current_len >= MaxTempo * target THEN <<MaxTempo, 1>>
    ELSE <<current_len, target>>

\* line 187: factor > 1.0
AboveOne(factor) == factor[1] > factor[2]

\* lines 177-187: clip i (1-based) of clips is to be sped up
Marked(clips, i) ==
    /\ i + 1 <= Len(clips)
    /\ LET current_len == clips[i].audio.len
           end_time == clips[i].time_ms + current_len
           next_start == clips[i + 1].time_ms
           target == Target(next_start, clips[i].time_ms)
       IN  /\ end_time > next_start + OverlapTolerance
           /\ target > MinTarget
           /\ AboveOne(Factor(current_len, target))

\* line 190: the task of clip i, which carries the 0-based index
SpeedTask(clips, i) ==
    LET target == Target(clips[i + 1].time_ms, clips[i].time_ms)
    IN  [i |-> i - 1, file |-> SpeedFile(clips[i].file), target |-> target,
         factor |-> Factor(clips[i].audio.len, target)]

RECURSIVE SpeedTasksFrom(_, _)
\* lines 174-190: the tasks of clips i.. in order
SpeedTasksFrom(clips, i) ==
    IF i > Len(clips) - 1 THEN <<>>
    ELSE (IF Marked(clips, i) THEN <<SpeedTask(clips, i)>> ELSE <<>>)
         \o SpeedTasksFrom(clips, i + 1)

RECURSIVE ExportSpeedFrom(_, _, _)
\* lines 188-189: the loaded audio of each marked clip is written to its
\* '_speed.mp3' file
ExportSpeedFrom(fs, clips, i) ==
    IF i > Len(clips) - 1 THEN fs
    ELSE ExportSpeedFrom(
            IF Marked(clips, i)
            THEN WriteFile(fs, SpeedFile(clips[i].file), clips[i].audio)
            ELSE fs,
            clips, i + 1)

\* lines 174-190: the overlap detection loop
DetectOverlaps ==
    /\ p_pc = "detect"
    /\ LET tasks == SpeedTasksFrom(processed_audio_segments, 1)
       IN  /\ speed_adjust_tasks_list' = tasks
           /\ adjust' = [k \in 1..Len(tasks) |-> "queued"]
    /\ files' = ExportSpeedFrom(files, processed_audio_segments, 1)
    /\ p_pc' = "adjust"
    /\ UNCHANGED <<segments, synth, audio_files, processed_audio_segments,
                   final_audio_segments, combined_audio, current_pos,
                   output_mp3>>
    /\ UNCHANGED <<returncode, mp3_file_path>>
    /\ UNCHANGED <<content, segVars, batVars, trVars, ttsVars, wVars, bwVars>>

\* ffmpeg's atempo filter: the audio played factor times faster
Atempo(audio, factor) ==
    [audio EXCEPT !.len = (audio.len * factor[2]) \div factor[1],
                  !.tempo = <<audio.tempo[1] * factor[1],
                              audio.tempo[2] * factor[2]>>]

\* adjust_audio_speed writing ffmpeg's output over the synthesized clip's
\* own file instead of over the '_speed.mp3' copy
AdjustOk_InPlace(k) ==
    /\ p_pc = "adjust"
    /\ adjust[k] = "queued"
    /\ LET task == speed_adjust_tasks_list[k]
           orig == processed_audio_segments[task.i + 1].file
       IN  files' = WriteFile(files, orig, Atempo(files[orig], task.factor))
    /\ adjust' = [adjust EXCEPT ![k] = "done"]
    /\ UNCHANGED <<p_pc, segments, synth, audio_files, processed_audio_segments,
                   speed_adjust_tasks_list, final_audio_segments,
                   combined_audio, current_pos, output_mp3>>
    /\ UNCHANGED <<returncode, mp3_file_path>>
    /\ UNCHANGED <<content, segVars, batVars, trVars, ttsVars, wVars, bwVars>>

\* adjust_audio_speed in a pool process, lines 93-103: the file is replaced
\* by its sped-up version
AdjustOk(k) ==
    /\ p_pc = "adjust"
    /\ adjust[k] = "queued"
    /\ LET task == speed_adjust_tasks_list[k]
       IN  files' = WriteFile(files, task.file,
                              Atempo(files[task.file], task.factor))
    /\ adjust' = [adjust EXCEPT ![k] = "done"]
    /\ UNCHANGED <<p_pc, segments, synth, audio_files, processed_audio_segments,
                   speed_adjust_tasks_list, final_audio_segments,
                   combined_audio, current_pos, output_mp3>>
    /\ UNCHANGED <<returncode, mp3_file_path>>
    /\ UNCHANGED <<content, segVars, batVars, trVars, ttsVars, wVars, bwVars>>

\* adjust_audio_speed failing after it has replaced the file by ffmpeg's
\* output
AdjustFails_FileReplaced(k) ==
    /\ p_pc = "adjust"
    /\ adjust[k] = "queued"
    /\ LET task == speed_adjust_tasks_list[k]
       IN  files' = WriteFile(files, task.file,
                              Atempo(files[task.file], task.factor))
    /\ adjust' = [adjust EXCEPT ![k] = "failed"]
    /\ UNCHANGED <<p_pc, segments, synth, audio_files, processed_audio_segments,
                   speed_adjust_tasks_list, final_audio_segments,
                   combined_audio, current_pos, output_mp3>>
    /\ UNCHANGED <<returncode, mp3_file_path>>
    /\ UNCHANGED <<content, segVars, batVars, trVars, ttsVars, wVars, bwVars>>

\* adjust_audio_speed, lines 104-107, and process_tts, lines 201-204: ffmpeg
\* failed or could not be run; the file keeps the unadjusted audio
AdjustFails(k) ==
    /\ p_pc = "adjust"
    /\ adjust[k] = "queued"
    /\ adjust' = [adjust EXCEPT ![k] = "failed"]
    /\ UNCHANGED <<p_pc, segments, synth, files, audio_files,
                   processed_audio_segments, speed_adjust_tasks_list,
                   final_audio_segments, combined_audio, current_pos,
                   output_mp3>>
    /\ UNCHANGED <<returncode, mp3_file_path>>
    /\ UNCHANGED <<content, segVars, batVars, trVars, ttsVars, wVars, bwVars>>

\* lines 210-218: the clip that is mixed for a loaded clip (every file is
\* taken to be readable)
FinalClip(fs, clip) ==
    LET adjusted_file == SpeedFile(clip.file)
    IN  IF Exists(fs, adjusted_file)
        THEN [file |-> adjusted_file, time_ms |-> clip.time_ms,
              audio |-> fs[adjusted_file]]
        ELSE clip

\* lines 192-218: every adjustment task has ended (there may be none); the
\* clips to mix are selected
SelectFinal ==
    /\ p_pc = "adjust"
    /\ \A k \in 1..Len(adjust) : adjust[k] /= "queued"
    /\ final_audio_segments' =
         [i \in 1..Len(processed_audio_segments) |->
             FinalClip(files, processed_audio_segments[i])]
    /\ p_pc' = "mix"
    /\ UNCHANGED <<segments, synth, files, audio_files,
                   processed_audio_segments, speed_adjust_tasks_list, adjust,
                   combined_audio, current_pos, output_mp3>>
    /\ UNCHANGED <<returncode, mp3_file_path>>
    /\ UNCHANGED <<content, segVars, batVars, trVars, ttsVars, wVars, bwVars>>

\* AudioSegment.silent(duration=d)
Silent(d) == [txt |-> "", len |-> d, tempo |-> NoTempo]

\* lines 224-227 with no silence inserted
SilenceGap_None(start_ms, pos) == 0

\* lines 224-227 with the gap measured from the start of the track instead
\* of from the cursor
SilenceGap_FromZero(start_ms, pos) == start_ms

\* lines 224-227: the silence put before a clip that starts at start_ms
SilenceGap(start_ms, pos) == IF start_ms > pos THEN start_ms - pos ELSE 0

RECURSIVE MixFrom(_, _, _, _)
\* lines 223-229: clips i.. are put on the track
MixFrom(clips, i, combined, pos) ==
    IF i > Len(clips) THEN [combined |-> combined, pos |-> pos]
    ELSE LET silence_gap == SilenceGap(clips[i].time_ms, pos)
             withGap == IF silence_gap > 0
                        THEN Append(combined, Silent(silence_gap))
                        ELSE combined
         IN  MixFrom(clips, i + 1, Append(withGap, clips[i].audio),
                     pos + silence_gap + clips[i].audio.len)

\* lines 220-229: the Timeline Mixer
MixTimeline ==
    /\ p_pc = "mix"
    /\ LET mixed == MixFrom(final_audio_segments, 1, <<>>, 0)
       IN  /\ combined_audio' = mixed.combined
           /\ current_pos' = mixed.pos
    /\ p_pc' = "export"
    /\ UNCHANGED <<segments, synth, files, audio_files,
                   processed_audio_segments, speed_adjust_tasks_list, adjust,
                   final_audio_segments, output_mp3>>
    /\ UNCHANGED <<returncode, mp3_file_path>>
    /\ UNCHANGED <<content, segVars, batVars, trVars, ttsVars, wVars, bwVars>>

\* line 234
ExportTrack ==
    /\ p_pc = "export"
    /\ output_mp3' = combined_audio
    /\ p_pc' = "cleanup"
    /\ UNCHANGED <<segments, synth, files, audio_files,
                   processed_audio_segments, speed_adjust_tasks_list, adjust,
                   final_audio_segments, combined_audio, current_pos>>
    /\ UNCHANGED <<returncode, mp3_file_path>>
    /\ UNCHANGED <<content, segVars, batVars, trVars, ttsVars, wVars, bwVars>>

\* lines 237-247
Cleanup ==
    /\ p_pc = "cleanup"
    /\ files' = RemoveFiles(files,
         {audio_files[i].file : i \in 1..Len(audio_files)}
         \cup {final_audio_segments[i].file :
                 i \in {j \in 1..Len(final_audio_segments) :
                          EndsWith(final_audio_segments[j].file, SpeedMp3)}})
    /\ p_pc' = "done"
    /\ UNCHANGED <<segments, synth, audio_files, processed_audio_segments,
                   speed_adjust_tasks_list, adjust, final_audio_segments,
                   combined_audio, current_pos, output_mp3>>
    /\ UNCHANGED <<returncode, mp3_file_path>>
    /\ UNCHANGED <<content, segVars, batVars, trVars, ttsVars, wVars, bwVars>>

\* tts_runner.py, lines 259-264: the process ends with code 0 when
\* process_tts returned and with code 1 when it raised
RunnerExit ==
    /\ p_pc \in {"done", "raised"}
    /\ returncode = "none"
    /\ returncode' = IF p_pc = "done" THEN "0" ELSE "1"
    /\ UNCHANGED <<p_pc, segments, synth, files, audio_files,
                   processed_audio_segments, speed_adjust_tasks_list, adjust,
                   final_audio_segments, combined_audio, current_pos,
                   output_mp3, mp3_file_path>>
    /\ UNCHANGED <<content, segVars, batVars, trVars, ttsVars, wVars, bwVars>>

\* process_tts_with_speed_adjustment, app.py lines 1091-1098: the path when
\* the code is 0 and a file is at output_mp3_path, else None
MixResult(code, exists) == IF code = "0" /\ exists THEN "path" ELSE "None"

\* process_tts_with_speed_adjustment, app.py lines 1089-1098.  The file at
\* output_mp3_path is the track this run exported or, when stale, a track an
\* earlier run left there: the workflow always writes to
\* subtitles/word_level_translated.mp3 (app.py:286, 400) and nothing removes
\* that file before a run.
CallerCheck ==
    /\ returncode /= "none"
    /\ mp3_file_path = "pending"
    /\ \E stale \in BOOLEAN :
          mp3_file_path' = MixResult(returncode, output_mp3 /= None \/ stale)
    /\ UNCHANGED <<p_pc, segments, synth, files, audio_files,
                   processed_audio_segments, speed_adjust_tasks_list, adjust,
                   final_audio_segments, combined_audio, current_pos,
                   output_mp3, returncode>>
    /\ UNCHANGED <<content, segVars, batVars, trVars, ttsVars, wVars, bwVars>>

PNext ==
    \/ \E i \in 1..Len(segments) : ProcessSegmentOk(i)
    \/ \E i \in 1..Len(segments) : ProcessSegmentFails(i)
    \/ \E i \in 1..Len(segments) : ProcessSegmentFailsFileLeft(i)
    \/ \E i \in 1..Len(segments) : ProcessSegmentCrash(i)
    \/ PNoAudio
    \/ PLoadAudioFails
    \/ PLoadAudio
    \/ DetectOverlaps
    \/ \E k \in 1..Len(adjust) : AdjustOk(k)
    \/ \E k \in 1..Len(adjust) : AdjustFails(k)
    \/ SelectFinal
    \/ MixTimeline
    \/ ExportTrack
    \/ Cleanup
    \/ RunnerExit
    \/ CallerCheck

SpecP == PInit /\ [][PNext]_vars

-----------------------------------------------------------------------------
(* process_tts: claims *)

RECURSIVE Duration(_)
\* length of a track made of pieces
Duration(track) ==
    IF track = <<>> THEN 0 ELSE Head(track).len + Duration(Tail(track))

\* the overlap detection has run
Detected == p_pc \in {"adjust", "mix", "export", "cleanup", "done"}
            /\ processed_audio_segments /= <<>>

\* the clips to mix have been selected
Selected == p_pc \in {"mix", "export", "cleanup", "done"}
            /\ final_audio_segments /= <<>>

\* 1-based positions of the clips marked for adjustment
MarkedClips ==
    {speed_adjust_tasks_list[k].i + 1 : k \in 1..Len(speed_adjust_tasks_list)}

\* C6: every clip marked for adjustment has a factor above 1.0 and at most
\* 2.0, and every clip that is not marked is mixed at tempo 1.0, with the
\* audio that was loaded for it.
C6_TempoFactors ==
    Selected =>
        /\ \A k \in 1..Len(speed_adjust_tasks_list) :
              LET f == speed_adjust_tasks_list[k].factor
              IN  f[1] > f[2] /\ f[1] <= MaxTempo * f[2]
        /\ \A i \in 1..Len(final_audio_segments) :
              i \notin MarkedClips =>
                 /\ final_audio_segments[i].audio.tempo = NoTempo
                 /\ final_audio_segments[i].audio
                      = processed_audio_segments[i].audio

\* the two clips of the scenario: 0 ms / 1500 ms and 1000 ms / 1000 ms
ScenarioClips ==
    /\ Len(processed_audio_segments) = 2
    /\ processed_audio_segments[1].time_ms = 0
    /\ processed_audio_segments[1].audio.len = 1500
    /\ processed_audio_segments[2].time_ms = 1000
    /\ processed_audio_segments[2].audio.len = 1000

\* C7: for the clips 0 ms / 1500 ms and 1000 ms / 1000 ms there is exactly
\* one adjustment task, for the first clip, with target 950 and factor
\* 1500/950 (below the cap, 1.579 when rounded to three places).
C7_OverlapScenario ==
    (Detected /\ ScenarioClips) =>
        /\ Len(speed_adjust_tasks_list) = 1
        /\ LET task == speed_adjust_tasks_list[1]
           IN  /\ task.i = 0
               /\ task.file = SpeedFile(processed_audio_segments[1].file)
               /\ task.target = 950
               /\ task.factor = <<1500, 950>>
               /\ 2 * 1000 * task.factor[1] >= 3157 * task.factor[2]
               /\ 2 * 1000 * task.factor[1] < 3159 * task.factor[2]

\* witness of C7: the scenario's clips were loaded and the detection marked
\* one of them
C7_Witness ==
    /\ p_pc = "adjust"
    /\ ScenarioClips
    /\ Len(speed_adjust_tasks_list) = 1
    /\ adjust = <<"queued">>

\* C8: the exported track is at least as long as the end, start + length, of
\* every clip the mixer was given.
C8_TrackCoversClips ==
    (p_pc \in {"export", "cleanup", "done"} /\ final_audio_segments /= <<>>) =>
        /\ Duration(combined_audio) = current_pos
        /\ \A i \in 1..Len(final_audio_segments) :
              current_pos >= final_audio_segments[i].time_ms
                             + final_audio_segments[i].audio.len
        /\ (p_pc /= "export" => output_mp3 = combined_audio)

\* witness of C8: a track was exported that starts with silence, holds three
\* clips, and ends later than its last clip would by its own start time
C8_Witness ==
    /\ p_pc = "done"
    /\ Len(final_audio_segments) = 3
    /\ output_mp3 /= <<>>
    /\ Head(output_mp3) = Silent(1000)
    /\ Duration(output_mp3) >
          final_audio_segments[3].time_ms + final_audio_segments[3].audio.len

\* C11: an attempt that fails with an error outside the retryable class ends
\* text_to_speech by raising, after any number of attempts; once it has
\* raised there is no further attempt and no further backoff wait.
C11_NonRetryablePropagates ==
    /\ [](tts_outcome = "other" => tts_pc = "raised")
    /\ [][tts_pc = "raised" =>
            (tts_pc' = "raised" /\ tts_calls' = tts_calls
             /\ tts_delay' = tts_delay /\ retry_count' = retry_count)]_vars
    /\ [][(tts_pc = "call" /\ tts_outcome' = "other") =>
            (tts_pc' = "raised" /\ tts_delay' = tts_delay)]_vars

\* witness of C11: two retryable failures, then a non-retryable one on the
\* third attempt
C11_Witness ==
    /\ tts_pc = "raised"
    /\ tts_outcome = "other"
    /\ tts_calls = 3
    /\ retry_count = 3
    /\ tts_delay >= 2000

\* process_tts has ended: it returned, or an exception left it
PEnded == p_pc \in {"done", "raised"}

\* the segments whose synthesis returned a file
Synthesized == {i \in 1..Len(synth) : synth[i] = "ok"}

\* C12: when one segment's worker crashes or fails for good, every other
\* segment still gets its own outcome, the failed segment is left out of the
\* clip list, and the remaining clips are resolved, mixed and exported.
C12_SiblingsUnaffected ==
    PEnded =>
        /\ \A i \in 1..Len(synth) : synth[i] /= "queued"
        /\ (Synthesized /= {} =>
               /\ Len(final_audio_segments) = Cardinality(Synthesized)
               /\ output_mp3 /= <<>>)

RECURSIVE OkInIndexOrder(_)
\* the successfully synthesized segments among 1..n, in index order
OkInIndexOrder(n) ==
    IF n = 0 THEN <<>>
    ELSE OkInIndexOrder(n - 1) \o (IF synth[n] = "ok" THEN <<n>> ELSE <<>>)

\* the segment whose speech is in the file of segment i when the workers
\* complete in index order: the last synthesized segment with that file
LastWriterInIndexOrder(i) ==
    CHOOSE j \in Synthesized :
        /\ FileName(segments[j].timestamp) = FileName(segments[i].timestamp)
        /\ \A k \in Synthesized :
              FileName(segments[k].timestamp) = FileName(segments[i].timestamp)
                 => k <= j

\* the clip list the resolver gets when the workers complete in index order
ClipsInIndexOrder ==
    LET ok == OkInIndexOrder(Len(segments))
    IN  SortByTime([n \in 1..Len(ok) |->
            [file |-> FileName(segments[ok[n]].timestamp),
             time_ms |-> ParseTimestamp(segments[ok[n]].timestamp),
             audio |-> Synthesize(segments[LastWriterInIndexOrder(ok[n])].txt)]])

\* the clips have been loaded for the Overlap Resolver
Loaded == p_pc \in {"detect", "adjust", "mix", "export", "cleanup", "done"}
          /\ processed_audio_segments /= <<>>

\* C13: whatever the order in which the workers complete, the clip list
\* handed to the Overlap Resolver is the one obtained when they complete in
\* segment order, and it is sorted ascending by start time.
C13_SameClipsAnyOrder ==
    Loaded =>
        /\ \A i \in 1..(Len(processed_audio_segments) - 1) :
              processed_audio_segments[i].time_ms
                 <= processed_audio_segments[i + 1].time_ms
        /\ processed_audio_segments = ClipsInIndexOrder

\* C14: the overlap detection and everything after it run only when no
\* synthesis job is outstanding, and the final mix and everything after it
\* only when no tempo-adjustment job is outstanding.
C14_Barriers ==
    /\ p_pc \in {"detect", "adjust", "mix", "export", "cleanup", "done"} =>
          \A i \in 1..Len(synth) : synth[i] \in {"ok", "failed"}
    /\ p_pc \in {"mix", "export", "cleanup"} =>
          /\ Len(adjust) = Len(speed_adjust_tasks_list)
          /\ \A k \in 1..Len(adjust) : adjust[k] \in {"done", "failed"}
    /\ (p_pc = "done" /\ output_mp3 /= <<>>) =>
          \A k \in 1..Len(adjust) : adjust[k] \in {"done", "failed"}

\* witness of C14: the mix is reached after a synthesis job failed and two
\* succeeded, and after the one adjustment job ended
C14_Witness ==
    /\ p_pc = "mix"
    /\ synth = <<"ok", "failed", "ok">>
    /\ adjust = <<"done">>
    /\ Len(final_audio_segments) = 2

\* 1-based positions of the clips whose adjustment job failed
FailedAdjustments ==
    {speed_adjust_tasks_list[k].i + 1 :
        k \in {n \in 1..Len(adjust) : adjust[n] = "failed"}}

\* C15: a failed tempo adjustment changes no file and does not end the run;
\* the clip it was for is mixed with the audio that was loaded for it, at
\* its own start time, and every clip that is not marked keeps its loaded
\* audio as well.
C15_AdjustFailureFallsBack ==
    /\ [](FailedAdjustments /= {} => p_pc \in {"adjust", "mix", "export",
                                               "cleanup", "done"})
    /\ [](Selected =>
            /\ Len(final_audio_segments) = Len(processed_audio_segments)
            /\ \A i \in 1..Len(final_audio_segments) :
                  final_audio_segments[i].time_ms
                     = processed_audio_segments[i].time_ms
            /\ (\A k \in 1..Len(adjust) : adjust[k] = "failed") =>
                  \A i \in 1..Len(final_audio_segments) :
                     final_audio_segments[i].audio
                        = processed_audio_segments[i].audio)
    /\ [][(\E k \in 1..Len(adjust) :
              k \in 1..Len(adjust') /\ adjust[k] = "queued"
              /\ adjust'[k] = "failed")
          => (files' = files /\ p_pc' = p_pc)]_vars

\* witness of C15: the track was exported after the adjustment of the first
\* of three clips failed
C15_Witness ==
    /\ p_pc = "done"
    /\ adjust = <<"failed">>
    /\ Len(final_audio_segments) = 3
    /\ FailedAdjustments = {1}
    /\ final_audio_segments[1].audio.len = 2500
    /\ output_mp3 /= <<>>

-----------------------------------------------------------------------------
(* The status file and background_workflow_task (app.py).  Every
   WorkflowManager call loads the whole status file, changes its copy and
   saves the whole copy; the task thread and the page's request_stop share
   the file without a lock.  A load and a save are each one step. *)

\* the steps of the status, lines 151-157
NSteps == 7

\* default max_retries of retry_op, line 260
OpMaxRetries == 3

\* steps 1, 2, 5 and 6 run their operation through retry_op
UsesRetryOp(step) == step \in {1, 2, 5, 6}

\* the message of the exception check_interrupt raises (line 242)
AbortMsg == "aborted by user"

\* message of any other exception
FailureMsg == "failure"

\* init_status, lines 146-163
InitialStatus ==
    [is_running |-> TRUE, stop_requested |-> FALSE,
     steps |-> [s \in 1..NSteps |-> "pending"], results |-> FALSE,
     error |-> ""]

\* line 236 has run; the page has not asked for a stop
WInit ==
    /\ st_file = InitialStatus
    /\ w_pc = "check"
    /\ w_step = 0
    /\ w_code = ""
    /\ w_local = NoStatus
    /\ w_attempt = 0
    /\ w_error = ""
    /\ auto_upload \in BOOLEAN
    /\ ui_pc = "idle"
    /\ ui_local = NoStatus
    /\ SegIdle /\ BatIdle /\ TrIdle /\ TtsIdle /\ PIdle /\ BwIdle

\* check_interrupt, lines 238-242: s.get("stop_requested", False)
StopSeen(status) == status.stop_requested

\* the exception goes to the handler of line 637
Raise(msg) ==
    /\ w_error' = msg
    /\ w_pc' = "mark_error"
    /\ UNCHANGED <<st_file, w_step, w_code, w_local, w_attempt>>

\* check_interrupt at the start of the task and of a step: lines 245, 250,
\* 295, 343, 397, 411, 441, 490
WCheck ==
    /\ w_pc = "check"
    /\ IF StopSeen(st_file) THEN Raise(AbortMsg)
       ELSE IF w_step = 0
            THEN /\ w_step' = 1
                 /\ UNCHANGED <<st_file, w_pc, w_code, w_local, w_attempt,
                                w_error>>
            ELSE /\ w_pc' = "update_load"
                 /\ w_code' = "running"
                 /\ UNCHANGED <<st_file, w_step, w_local, w_attempt, w_error>>
    /\ UNCHANGED <<auto_upload, ui_pc, ui_local>>
    /\ UNCHANGED <<segVars, batVars, trVars, ttsVars, pVars, bwVars>>

\* update_step, line 201: load_status
WUpdateLoad ==
    /\ w_pc = "update_load"
    /\ w_local' = st_file
    /\ w_pc' = "update_save"
    /\ UNCHANGED <<st_file, w_step, w_code, w_attempt, w_error>>
    /\ UNCHANGED <<auto_upload, ui_pc, ui_local>>
    /\ UNCHANGED <<segVars, batVars, trVars, ttsVars, pVars, bwVars>>

\* update_step, lines 202-207: the loaded copy gets the step's status and is
\* saved; then the task goes on: to the operation of the step, to the next
\* step, to mark_completed, or (line 620, 623) to raising the upload error
WUpdateSave ==
    /\ w_pc = "update_save"
    /\ st_file' = [w_local EXCEPT !.steps[w_step] = w_code]
    /\ w_local' = NoStatus
    /\ CASE w_code = "running" ->
              /\ w_pc' = IF UsesRetryOp(w_step) THEN "retry_check" ELSE "op"
              /\ w_attempt' = 0
              /\ UNCHANGED <<w_step, w_code, w_error>>
         [] w_code = "error" ->
              /\ w_pc' = "mark_error"
              /\ w_error' = FailureMsg
              /\ UNCHANGED <<w_step, w_code, w_attempt>>
         [] w_code = "success" /\ w_step = NSteps ->
              /\ w_pc' = "mark_completed"
              /\ UNCHANGED <<w_step, w_code, w_attempt, w_error>>
         [] w_code = "success" /\ w_step = NSteps - 1 /\ ~auto_upload ->
              \* line 633: the upload is skipped, no checkpoint
              /\ w_step' = NSteps
              /\ w_pc' = "update_load"
              /\ UNCHANGED <<w_code, w_attempt, w_error>>
         [] OTHER ->
              /\ w_step' = w_step + 1
              /\ w_pc' = "check"
              /\ UNCHANGED <<w_code, w_attempt, w_error>>
    /\ UNCHANGED <<auto_upload, ui_pc, ui_local>>
    /\ UNCHANGED <<segVars, batVars, trVars, ttsVars, pVars, bwVars>>

\* retry_op, line 263: check_interrupt before each attempt
WRetryCheck ==
    /\ w_pc = "retry_check"
    /\ IF StopSeen(st_file) THEN Raise(AbortMsg)
       ELSE /\ w_pc' = "op"
            /\ UNCHANGED <<st_file, w_step, w_code, w_local, w_attempt,
                           w_error>>
    /\ UNCHANGED <<auto_upload, ui_pc, ui_local>>
    /\ UNCHANGED <<segVars, batVars, trVars, ttsVars, pVars, bwVars>>

\* the operation of the step returns (line 264 for the steps of retry_op)
WOpOk ==
    /\ w_pc = "op"
    /\ w_code' = "success"
    /\ w_pc' = "update_load"
    /\ UNCHANGED <<st_file, w_step, w_local, w_attempt, w_error>>
    /\ UNCHANGED <<auto_upload, ui_pc, ui_local>>
    /\ UNCHANGED <<segVars, batVars, trVars, ttsVars, pVars, bwVars>>

\* retry_op raising only one attempt after the last one allowed
WOpFails_OneMore ==
    /\ w_pc = "op"
    /\ IF UsesRetryOp(w_step)
       THEN IF w_attempt = OpMaxRetries THEN Raise(FailureMsg)
            ELSE /\ w_pc' = "retry_recheck"
                 /\ UNCHANGED <<st_file, w_step, w_code, w_local, w_attempt,
                                w_error>>
       ELSE IF w_step = NSteps
            THEN /\ w_code' = "error"
                 /\ w_pc' = "update_load"
                 /\ UNCHANGED <<st_file, w_step, w_local, w_attempt, w_error>>
            ELSE Raise(FailureMsg)
    /\ UNCHANGED <<auto_upload, ui_pc, ui_local>>
    /\ UNCHANGED <<segVars, batVars, trVars, ttsVars, pVars, bwVars>>

\* the operation of the step raises: retry_op (lines 265-270) raises on the
\* last attempt and otherwise goes to its second checkpoint; steps 3 and 4
\* raise; the upload (lines 618-623) first records the step as 'error'
WOpFails ==
    /\ w_pc = "op"
    /\ IF UsesRetryOp(w_step)
       THEN IF w_attempt = OpMaxRetries - 1 THEN Raise(FailureMsg)
            ELSE /\ w_pc' = "retry_recheck"
                 /\ UNCHANGED <<st_file, w_step, w_code, w_local, w_attempt,
                                w_error>>
       ELSE IF w_step = NSteps
            THEN /\ w_code' = "error"
                 /\ w_pc' = "update_load"
                 /\ UNCHANGED <<st_file, w_step, w_local, w_attempt, w_error>>
            ELSE Raise(FailureMsg)
    /\ UNCHANGED <<auto_upload, ui_pc, ui_local>>
    /\ UNCHANGED <<segVars, batVars, trVars, ttsVars, pVars, bwVars>>

\* retry_op, lines 269-270: check_interrupt before the sleep, then the next
\* attempt
WRetryRecheck ==
    /\ w_pc = "retry_recheck"
    /\ IF StopSeen(st_file) THEN Raise(AbortMsg)
       ELSE /\ w_attempt' = w_attempt + 1
            /\ w_pc' = "retry_check"
            /\ UNCHANGED <<st_file, w_step, w_code, w_local, w_error>>
    /\ UNCHANGED <<auto_upload, ui_pc, ui_local>>
    /\ UNCHANGED <<segVars, batVars, trVars, ttsVars, pVars, bwVars>>

\* mark_completed (line 635) and mark_error (line 643), line 211 / 220:
\* load_status
WMarkLoad ==
    /\ w_pc \in {"mark_completed", "mark_error"}
    /\ w_local' = st_file
    /\ w_pc' = IF w_pc = "mark_error" THEN "mark_error_save"
               ELSE "mark_completed_save"
    /\ UNCHANGED <<st_file, w_step, w_code, w_attempt, w_error>>
    /\ UNCHANGED <<auto_upload, ui_pc, ui_local>>
    /\ UNCHANGED <<segVars, batVars, trVars, ttsVars, pVars, bwVars>>

\* mark_completed, lines 212-216; results is the non-empty dict of line 480
\* (the status records whether it holds the results)
WMarkCompletedSave ==
    /\ w_pc = "mark_completed_save"
    /\ st_file' = [w_local EXCEPT !.is_running = FALSE, !.results = TRUE]
    /\ w_local' = NoStatus
    /\ w_pc' = "ended"
    /\ UNCHANGED <<w_step, w_code, w_attempt, w_error>>
    /\ UNCHANGED <<auto_upload, ui_pc, ui_local>>
    /\ UNCHANGED <<segVars, batVars, trVars, ttsVars, pVars, bwVars>>

\* mark_error, lines 221-224
WMarkErrorSave ==
    /\ w_pc = "mark_error_save"
    /\ st_file' = [w_local EXCEPT !.is_running = FALSE, !.error = w_error]
    /\ w_local' = NoStatus
    /\ w_pc' = "ended"
    /\ UNCHANGED <<w_step, w_code, w_attempt, w_error>>
    /\ UNCHANGED <<auto_upload, ui_pc, ui_local>>
    /\ UNCHANGED <<segVars, batVars, trVars, ttsVars, pVars, bwVars>>

\* the page shows the stop button while is_running (lines 1206-1212);
\* request_stop, line 169: load_status
UiStopLoad ==
    /\ ui_pc = "idle"
    /\ st_file.is_running
    /\ ui_local' = st_file
    /\ ui_pc' = "stop_save"
    /\ UNCHANGED <<st_file, w_pc, w_step, w_code, w_local, w_attempt, w_error,
                   auto_upload>>
    /\ UNCHANGED <<segVars, batVars, trVars, ttsVars, pVars, bwVars>>

\* request_stop, lines 170-174: the loaded copy gets the stop request and is
\* saved; request_stop returns
UiStopSave ==
    /\ ui_pc = "stop_save"
    /\ st_file' = [ui_local EXCEPT !.stop_requested = TRUE,
                                   !.is_running = FALSE]
    /\ ui_local' = NoStatus
    /\ ui_pc' = "returned"
    /\ UNCHANGED <<w_pc, w_step, w_code, w_local, w_attempt, w_error,
                   auto_upload>>
    /\ UNCHANGED <<segVars, batVars, trVars, ttsVars, pVars, bwVars>>

WNext ==
    \/ WCheck
    \/ WUpdateLoad
    \/ WUpdateSave
    \/ WRetryCheck
    \/ WOpOk
    \/ WOpFails
    \/ WRetryRecheck
    \/ WMarkLoad
    \/ WMarkCompletedSave
    \/ WMarkErrorSave
    \/ UiStopLoad
    \/ UiStopSave

SpecW == WInit /\ [][WNext]_vars

-----------------------------------------------------------------------------
(* background_workflow_task: claims *)

\* the task is at a checkpoint (a check_interrupt call)
AtCheckpoint == w_pc \in {"check", "retry_check", "retry_recheck"}

\* C16: once request_stop has returned, the next checkpoint the task comes
\* to aborts it: it raises the abort, starts no step and no attempt, and the
\* task ends with the abort recorded as its error.
C16_StopHaltsAtCheckpoint ==
    /\ [][(ui_pc = "returned" /\ AtCheckpoint /\ w_pc' /= w_pc)
          => (w_pc' = "mark_error" /\ w_error' = AbortMsg)]_vars
    /\ [][(ui_pc = "returned" /\ AtCheckpoint) => w_step' = w_step]_vars
    /\ []((w_pc = "ended" /\ w_error = AbortMsg)
          => (st_file.error = AbortMsg /\ ~st_file.is_running))

\* C17: once the track is written and the cleanup has run, no clip file is
\* left in the temp directory, whether it came from a job that succeeded or
\* from one that failed; and no clip file is removed before the track is
\* written.
C17_TempFilesReleased ==
    /\ []((p_pc = "done" /\ output_mp3 /= None) => DOMAIN files = {})
    /\ [][p_pc /= "cleanup" => DOMAIN files \subseteq DOMAIN files']_vars

\* C18: when no segment was synthesized the speech stage returns None to
\* the workflow (which then fails step 4) and never a track; when
\* process_tts mixed a non-empty clip set it returns the track.
C18_EmptyClipSetIsFatal ==
    mp3_file_path /= "pending" =>
        /\ Synthesized = {} => mp3_file_path = "None"
        /\ (p_pc = "done" /\ final_audio_segments /= <<>>) =>
              mp3_file_path = "path"

\* the synthesis jobs that are in the pool and have not ended; all jobs are
\* submitted at once (line 151) and the pool runs four of them at a time
\* (app.py:1075)
SynthInFlight == {i \in 1..Len(synth) : p_pc = "synth" /\ synth[i] = "queued"}

\* the adjustment jobs that are in the pool and have not ended
AdjustInFlight == {k \in 1..Len(adjust) : p_pc = "adjust" /\ adjust[k] = "queued"}

\* C19: two jobs that are in a pool at the same time never have the same
\* output file, and no synthesis job writes a file that another segment's
\* job has written.
C19_NoSharedFile ==
    /\ [](\A i, j \in SynthInFlight :
             i /= j => FileName(segments[i].timestamp)
                          /= FileName(segments[j].timestamp))
    /\ [](\A k, l \in AdjustInFlight :
             k /= l => speed_adjust_tasks_list[k].file
                          /= speed_adjust_tasks_list[l].file)
    /\ [][\A i \in SynthInFlight :
             (synth'[i] /= "queued" /\ files' /= files)
                => FileName(segments[i].timestamp) \notin DOMAIN files]_vars

RECURSIVE WordTokens(_)
\* the word tokens of a token list: everything but the timestamp sentinels
WordTokens(tokens) ==
    IF tokens = <<>> THEN <<>>
    ELSE (IF IsSentinel(Head(tokens)) THEN <<>> ELSE <<Head(tokens)>>)
         \o WordTokens(Tail(tokens))

RECURSIVE DueWords(_, _)
\* the words the output is due for a stream: those of every text line that
\* carries a marker, and those of a line without a marker when a sentence is
\* in progress (open: the last word so far did not end its sentence)
DueWords(lines, open) ==
    IF lines = <<>> THEN <<>>
    ELSE LET line == StripLine(Head(lines))
             words == WordTokens(LineTokens(line))
         IN  IF CueHeaderMatch(line) THEN DueWords(Tail(lines), open)
             ELSE IF ~TsTagSearch(line) /\ ~open THEN DueWords(Tail(lines), open)
             ELSE words \o DueWords(Tail(lines),
                                    IF words = <<>> THEN open
                                    ELSE ~EndsSentence(words[Len(words)]))

RECURSIVE SentenceWords(_)
\* the words of the output sentences, in order: "(ts) w1 w2 ..."
SentenceWords(sents) ==
    IF sents = <<>> THEN <<>>
    ELSE Tail(Split(Head(sents))) \o SentenceWords(Tail(sents))

\* C20: when the segmenter has returned, the words of its sentences are, in
\* input order and once each, the words of the text lines that carry a
\* marker or continue a sentence in progress.
C20_NoWordDropped ==
    seg_pc \in {"done", "rerun"} =>
        SentenceWords(sentences) = DueWords(vtt_lines, FALSE)


-----------------------------------------------------------------------------
(* Final status of the workflow: claims *)

\* the batches whose translation was kept in the output
TranslatedBatches == DOMAIN translated_results

\* C21: when at least one batch fails at translation while others succeed,
\* the status that the workflow run records for the translation stage
\* carries a non-zero failure count (and the count of successes) rather
\* than a plain success.
C21_StageCountsReported ==
    (/\ tr_variant = "workflow"
     /\ tr_pc = "reported"
     /\ failed_count > 0
     /\ TranslatedBatches /= {})
        => /\ tr_report.failed = {failed_count}
           /\ tr_report.success = {Cardinality(TranslatedBatches)}


-----------------------------------------------------------------------------
(* process_tts: claims on the adjustment and the mix *)

\* 1-based positions of the clips whose adjustment job succeeded
DoneAdjustments ==
    {speed_adjust_tasks_list[k].i + 1 :
        k \in {n \in 1..Len(adjust) : adjust[n] = "done"}}

\* the factor of the task of the clip at (1-based) position i
FactorOf(i) ==
    LET k == CHOOSE n \in 1..Len(speed_adjust_tasks_list) :
                 speed_adjust_tasks_list[n].i + 1 = i
    IN  speed_adjust_tasks_list[k].factor

\* C22: no step of the adjustment stage, whether a job succeeds or fails,
\* changes the file of a synthesized clip or the clip that was loaded from
\* it; the adjusted audio is in another file, and the clip made from that
\* file stands in the place of the old clip in the list that is mixed.
C22_NoInPlaceAdjustment ==
    /\ [][p_pc = "adjust" =>
            /\ processed_audio_segments' = processed_audio_segments
            /\ \A i \in 1..Len(processed_audio_segments) :
                  LET f == processed_audio_segments[i].file
                  IN  Exists(files', f) /\ files'[f] = files[f]]_vars
    /\ [](Selected =>
            \A i \in DoneAdjustments :
               LET old == processed_audio_segments[i]
                   new == final_audio_segments[i]
               IN  /\ new.file /= old.file
                   /\ new.file = SpeedFile(old.file)
                   /\ new.time_ms = old.time_ms
                   /\ new.audio = Atempo(old.audio, FactorOf(i))
                   /\ p_pc \in {"mix", "export", "cleanup"}
                         => (Exists(files, old.file)
                             /\ files[old.file] = old.audio))

\* witness of C22: the clips were selected after the adjustment of the first
\* clip succeeded; its synthesized file still holds the 1500 ms that were
\* loaded and the clip to mix is the shorter one of the '_speed.mp3' file
C22_Witness ==
    /\ p_pc = "mix"
    /\ adjust = <<"done">>
    /\ DoneAdjustments = {1}
    /\ files[processed_audio_segments[1].file].len = 1500
    /\ final_audio_segments[1].audio.len < 1500
    /\ final_audio_segments[1].file = SpeedFile(processed_audio_segments[1].file)


\* the fraction f is min(len / target, 2.0), for target > 0
IsCappedRatio(f, len, target) ==
    IF len >= 2 * target
    THEN f[1] = 2 * f[2]
    ELSE f[1] * target = len * f[2]

\* C23: after the detection, clip i of the sorted list has an adjustment
\* task if and only if it has a successor, start_ms[i] + duration_ms[i] >
\* start_ms[i+1] + 100 and target = start_ms[i+1] - start_ms[i] - 50 > 100;
\* the task's factor is min(duration_ms[i] / target, 2.0); the last clip has
\* no task, and no clip has two.
C23_MarkedIffOverlap ==
    Detected =>
        LET clips == processed_audio_segments
            n == Len(clips)
        IN  /\ \A i \in 1..n :
                  (i \in MarkedClips) <=>
                     /\ i < n
                     /\ clips[i].time_ms + clips[i].audio.len
                           > clips[i + 1].time_ms + 100
                     /\ clips[i + 1].time_ms - clips[i].time_ms - 50 > 100
            /\ \A k \in 1..Len(speed_adjust_tasks_list) :
                  LET t == speed_adjust_tasks_list[k]
                      i == t.i + 1
                  IN  /\ i \in 1..(n - 1)
                      /\ t.target = clips[i + 1].time_ms - clips[i].time_ms - 50
                      /\ IsCappedRatio(t.factor, clips[i].audio.len, t.target)
            /\ n \notin MarkedClips
            /\ Cardinality(MarkedClips) = Len(speed_adjust_tasks_list)

\* witness of C23: of three loaded clips the second, 2500 ms long and 1000 ms
\* before the third, has a task with the factor capped at 2.0; the first,
\* which starts with the second, and the last have none
C23_Witness ==
    /\ p_pc = "adjust"
    /\ Len(processed_audio_segments) = 3
    /\ MarkedClips = {2}
    /\ processed_audio_segments[2].audio.len = 2500
    /\ speed_adjust_tasks_list[1].factor = <<2, 1>>
    /\ processed_audio_segments[1].time_ms = processed_audio_segments[2].time_ms


\* C24: the list of clips to mix has as many clips as the list that was
\* loaded, in the same order and with the same start times, and only the
\* clips whose adjustment succeeded have another audio (and so another
\* duration) than the one loaded.
C24_ResolverKeepsClips ==
    Selected =>
        /\ Len(final_audio_segments) = Len(processed_audio_segments)
        /\ \A i \in 1..Len(final_audio_segments) :
              /\ final_audio_segments[i].time_ms
                    = processed_audio_segments[i].time_ms
              /\ i \notin DoneAdjustments =>
                    final_audio_segments[i].audio
                       = processed_audio_segments[i].audio


-----------------------------------------------------------------------------
(* text_to_speech: the waits *)

\* the shortest wait before the k-th retry, in ms
WaitFloor == <<1000, 2000, 4000, 8000, 16000>>

\* C25: the wait before the k-th retry of a synthesis call, k = 1..5, lies
\* in [1, 1.5), [2, 2.5), [4, 4.5), [8, 8.5), [16, 16.5) seconds; there is
\* no wait before the first attempt and no retry beyond the fifth.
C25_BackoffWaits ==
    /\ tts_pc = "sleep" =>
          /\ retry_count \in 1..5
          /\ tts_calls = retry_count
          /\ tts_delay >= WaitFloor[retry_count]
          /\ tts_delay < WaitFloor[retry_count] + 500
    /\ tts_calls = 0 => (tts_pc /= "sleep" /\ tts_delay = 0)

\* witness of C25: the coroutine sleeps before the fifth retry, with the
\* largest jitter tried
C25_Witness ==
    /\ tts_pc = "sleep"
    /\ retry_count = 5
    /\ tts_delay = 16499


-----------------------------------------------------------------------------
(* background_workflow_task: retry_op *)

\* the task is inside a call of retry_op
InRetryOp == w_pc \in {"retry_check", "retry_recheck"}
             \/ (w_pc = "op" /\ UsesRetryOp(w_step))

\* C26: an operation run through retry_op (steps 1, 2, 5, 6) is attempted
\* at most 3 times per call: the attempt index starts at 0 when the call
\* starts, whatever it was in the step before, the third failure is raised,
\* and a stop request seen at a checkpoint of retry_op raises the abort
\* exception, which goes to the handler at once: no attempt follows it.
C26_RetryOpCeiling ==
    /\ [](InRetryOp => (UsesRetryOp(w_step) /\ w_attempt \in 0..2))
    /\ [][(w_pc = "update_save" /\ w_pc' = "retry_check") => w_attempt' = 0]_vars
    /\ [][(w_pc = "op" /\ UsesRetryOp(w_step) /\ w_attempt = 2 /\ w_pc' /= w_pc)
             => \/ (w_pc' = "update_load" /\ w_code' = "success")
                \/ (w_pc' = "mark_error" /\ w_error' = FailureMsg)]_vars
    /\ [][(InRetryOp /\ w_pc /= "op" /\ StopSeen(st_file) /\ w_pc' /= w_pc)
             => (w_pc' = "mark_error" /\ w_error' = AbortMsg)]_vars
    /\ [](w_error = AbortMsg
             => w_pc \in {"mark_error", "mark_error_save", "ended"})

\* witness of C26: the video download (step 5) has failed for the third
\* time and the failure is on its way to the handler, after the earlier
\* steps, two of them through retry_op, have succeeded
C26_Witness ==
    /\ w_pc = "mark_error"
    /\ w_step = 5
    /\ w_attempt = 2
    /\ w_error = FailureMsg
    /\ \A s \in 1..4 : st_file.steps[s] = "success"


-----------------------------------------------------------------------------
(* Cue Segmenter: the timestamps of the flushed sentences, on the streams of
   FlushLineSet (every line holds at most one word) *)

\* the first of a, b, c, d that is a timestamp
FirstAvailable(a, b, c, d) ==
    IF a /= <<>> THEN a ELSE IF b /= <<>> THEN b ELSE IF c /= <<>> THEN c ELSE d

\* "00:00:00.000"
ZeroStamp == <<"0", "0", ":", "0", "0", ":", "0", "0", ".", "0", "0", "0">>

\* the marker in front of the word of a text line, if it has one
LeadingMarker(line) ==
    IF line /= <<>> /\ line[1] = "<" THEN SubSeq(line, 2, 13) ELSE <<>>

\* the sentence the step has appended
Flushed == sentences'[Len(sentences')]

\* C27: the timestamp written by a flush is the first available of the
\* sentence-start time, the last cue-header time, the last effective time
\* and 00:00:00.000, at terminal punctuation (where the sentence-start time
\* of a sentence that has none yet is the effective time or else the cue
\* time at the word) and at end of input; the flush at end of input writes
\* every pending word, and no word is pending once the segmenter returns.
C27_FlushTimestamp ==
    /\ [][(seg_pc = "loop" /\ seg_pc' = "done") =>
            IF current_words = <<>> THEN sentences' = sentences
            ELSE /\ Len(sentences') = Len(sentences) + 1
                 /\ IsPrefix(sentences, sentences')
                 /\ SentenceTs(Flushed) =
                       FirstAvailable(current_sentence_start_time,
                                      cue_start_time, effective_time, ZeroStamp)
                 /\ SentenceWords(<<Flushed>>) = current_words]_vars
    /\ [][(seg_pc = "loop" /\ seg_pc' = "loop" /\ sentences' /= sentences) =>
            LET line == vtt_lines'[Len(vtt_lines')]
                eff == FirstAvailable(LeadingMarker(line), effective_time,
                                      <<>>, <<>>)
                start == FirstAvailable(current_sentence_start_time, eff,
                                        cue_start_time, <<>>)
            IN  /\ Len(sentences') = Len(sentences) + 1
                /\ IsPrefix(sentences, sentences')
                /\ SentenceTs(Flushed) =
                      FirstAvailable(start, cue_start_time, eff, ZeroStamp)
                /\ current_words' = <<>>]_vars
    /\ [](seg_pc \in {"done", "rerun"} => current_words = <<>>)

\* witness of C27: a word with no time of its own (its only marker follows
\* it and no header precedes it), then a header, then a marker; the closing
\* flush wrote the word with the header's time, not with the marker's
C27_Witness ==
    /\ seg_pc = "done"
    /\ Len(vtt_lines) = 3
    /\ vtt_lines[1] \in TrailingMarkerLines
    /\ Parsed[vtt_lines[2]].kind = "header"
    /\ vtt_lines[3] \in MarkerOnlyLines
    /\ Len(sentences) = 1
    /\ SentenceTs(sentences[1]) = cue_start_time
    /\ effective_time /= cue_start_time


-----------------------------------------------------------------------------
(* Cue Segmenter: the start time of a sentence *)

RECURSIVE StartsInTokens(_, _, _, _)
\* the tokens of one text line, read with the cue's header time, the last
\* marker of the cue (<<>> if none yet) and whether a sentence is in
\* progress: the start due to each sentence that begins in the line (the
\* last marker, else the header time, else <<>>: no time is known), and the
\* last marker and the progress flag after the line
StartsInTokens(tokens, cue, marker, open) ==
    IF tokens = <<>> THEN [starts |-> <<>>, marker |-> marker, open |-> open]
    ELSE LET tok == Head(tokens)
         IN  IF IsSentinel(tok)
             THEN StartsInTokens(Tail(tokens), cue, SentinelTime(tok), open)
             ELSE LET rest == StartsInTokens(Tail(tokens), cue, marker,
                                             ~EndsSentence(tok))
                  IN  IF open THEN rest
                      ELSE [rest EXCEPT !.starts =
                               <<FirstAvailable(marker, cue, <<>>, <<>>)>> \o @]

RECURSIVE DueStarts(_, _, _, _)
\* the start due to each sentence of a stream, in order
DueStarts(lines, cue, marker, open) ==
    IF lines = <<>> THEN <<>>
    ELSE LET line == StripLine(Head(lines))
         IN  IF CueHeaderMatch(line)
             THEN DueStarts(Tail(lines), SubSeq(line, 1, 12), <<>>, open)
             ELSE IF ~TsTagSearch(line)
             THEN DueStarts(Tail(lines), cue, marker, open)
             ELSE LET r == StartsInTokens(LineTokens(line), cue, marker, open)
                  IN  r.starts \o DueStarts(Tail(lines), cue, r.marker, r.open)

\* C28: every emitted sentence starts at the effective time at its first
\* word: the last marker seen in the current cue before the word or, with no
\* marker yet in the cue, the cue header's start time (a first word before
\* any header and any marker has no such time); and while a sentence is in
\* progress no line changes the start it has.
C28_StartIsFirstWordTime ==
    /\ [](seg_pc \in {"done", "rerun"} =>
            LET due == DueStarts(vtt_lines, <<>>, <<>>, FALSE)
            IN  /\ Len(sentences) = Len(due)
                /\ \A i \in 1..Len(due) :
                      due[i] /= <<>> => SentenceTs(sentences[i]) = due[i])
    /\ [][(/\ seg_pc = "loop" /\ seg_pc' = "loop"
           /\ current_words /= <<>>
           /\ current_sentence_start_time /= <<>>
           /\ sentences' = sentences)
             => current_sentence_start_time' = current_sentence_start_time]_vars

\* witness of C28: a header at 0 s, a word after a marker at 0.5 s, a header
\* at 1.2 s; the sentence, in progress when the second header came, was
\* written with the marker's time
C28_Witness ==
    /\ seg_pc = "done"
    /\ Len(vtt_lines) = 3
    /\ Parsed[vtt_lines[1]].kind = "header"
    /\ Parsed[vtt_lines[3]].kind = "header"
    /\ cue_start_time /= SubSeq(vtt_lines[1], 1, 12)
    /\ Len(sentences) = 1
    /\ TsToMs(SentenceTs(sentences[1])) = 500


-----------------------------------------------------------------------------
(* Translation: the assembled output *)

\* C29: once the output is assembled it holds exactly one entry per batch,
\* in batch order, whatever the order in which the workers completed: the
\* translation of the batch where its call succeeded and a placeholder
\* tagged with the batch's index where it failed.
C29_OneEntryPerBatch ==
    tr_pc \in {"returned", "reported"} =>
        /\ Len(translated_paragraphs) = Len(tr_job)
        /\ \A i \in 1..Len(translated_paragraphs) :
              /\ translated_paragraphs[i].batch = i
              /\ translated_paragraphs[i].kind =
                    IF tr_result[i].kind = "translation"
                    THEN "translation" ELSE "placeholder"


-----------------------------------------------------------------------------
(* process_tts: the Timeline Mixer *)

\* the track has been mixed from at least one clip
Mixed == p_pc \in {"export", "cleanup", "done"} /\ final_audio_segments /= <<>>

RECURSIVE ClipsOnTrack(_, _)
\* the clips of a track, each with the offset at which it begins: every
\* piece but the silences, pos being the offset of the first piece
ClipsOnTrack(track, pos) ==
    IF track = <<>> THEN <<>>
    ELSE (IF Head(track).txt = "" THEN <<>>
          ELSE <<[offset |-> pos, audio |-> Head(track)]>>)
         \o ClipsOnTrack(Tail(track), pos + Head(track).len)

RECURSIVE SilenceOnTrack(_)
\* the total length of the silences of a track
SilenceOnTrack(track) ==
    IF track = <<>> THEN 0
    ELSE (IF Head(track).txt = "" THEN Head(track).len ELSE 0)
         + SilenceOnTrack(Tail(track))

RECURSIVE SumOfClips(_)
\* the total length of the clips of a list
SumOfClips(clips) ==
    IF clips = <<>> THEN 0
    ELSE Head(clips).audio.len + SumOfClips(Tail(clips))

\* the larger of two numbers
Max(a, b) == IF a >= b THEN a ELSE b

\* C30: on the mixed track every clip of the list is present, whole and in
\* order; clip k begins at max(cursor, start_ms[k]), the cursor being the end
\* of clip k-1 on the track (0 for the first clip), so no clip overlaps
\* another and the silence before a clip is exactly start_ms[k] - cursor
\* when the start is ahead of the cursor and none otherwise; the duration
\* of the track is the sum of the clips' durations and of the silences; and
\* when no clip ends after its successor's start_ms every clip begins at its
\* start_ms.
C30_MixerPlacement ==
    Mixed =>
        LET clips == final_audio_segments
            placed == ClipsOnTrack(combined_audio, 0)
            cursor(k) == IF k = 1 THEN 0
                         ELSE placed[k - 1].offset + placed[k - 1].audio.len
        IN  /\ Len(placed) = Len(clips)
            /\ \A k \in 1..Len(clips) :
                  /\ placed[k].audio = clips[k].audio
                  /\ placed[k].offset = Max(cursor(k), clips[k].time_ms)
            /\ Duration(combined_audio)
                  = SumOfClips(clips) + SilenceOnTrack(combined_audio)
            /\ current_pos = Duration(combined_audio)
            /\ (\A k \in 1..(Len(clips) - 1) :
                   clips[k].time_ms + clips[k].audio.len <= clips[k + 1].time_ms)
                  => \A k \in 1..Len(clips) :
                        placed[k].offset = clips[k].time_ms

\* witness of C30: three clips are on the track; the first was sped up to
\* 950 ms, 50 ms of silence bring the second to its start at 1000 ms, and the
\* third, whose start is behind the cursor, follows the second at once
C30_Witness ==
    /\ p_pc = "export"
    /\ Len(final_audio_segments) = 3
    /\ Len(combined_audio) = 4
    /\ combined_audio[1].len = 950
    /\ combined_audio[2] = Silent(50)
    /\ final_audio_segments[2].time_ms = 1000
    /\ final_audio_segments[3].time_ms = 1000
    /\ current_pos > 2000


-----------------------------------------------------------------------------
(* Batch Planner: the batches as a partition *)

RECURSIVE Flatten(_)
\* the paragraphs of the batches, batch after batch
Flatten(batches) ==
    IF batches = <<>> THEN <<>>
    ELSE Head(batches).items \o Flatten(Tail(batches))

\* C31: for every N >= 1 the batches closed so far followed by the batch
\* still open are the paragraphs read so far, in order and once each; when
\* the planner is done the batches alone are the whole list; and no batch
\* is empty.
C31_BatchesPartition ==
    /\ (bat_pc /= "idle" => cfg_seg_size >= 1)
    /\ Flatten(batched_paragraphs)
          \o (IF bat_pc = "loop" THEN current_batch ELSE <<>>) = paragraphs
    /\ \A b \in 1..Len(batched_paragraphs) :
          batched_paragraphs[b].items /= <<>>
    /\ \A i \in 1..Len(paragraphs) : paragraphs[i].id = i

\* witness of C31: four paragraphs planned with N = 3 into three batches,
\* the first closed by the character bound
C31_Witness ==
    /\ bat_pc = "done"
    /\ cfg_seg_size = 3
    /\ Len(paragraphs) = 4
    /\ Len(batched_paragraphs) = 3
    /\ Len(batched_paragraphs[1].items) = 1
    /\ Len(batched_paragraphs[3].items) = 2


-----------------------------------------------------------------------------
(* Translation: which batches count as failed *)

\* C32: once every result is collected, a batch is kept as translated if
\* and only if its call returned normally, whatever text it returned, and
\* the failure count is the number of batches whose call raised.
C32_FailedIffRaised ==
    tr_pc \in {"assemble", "returned", "reported"} =>
        /\ \A i \in Batches :
              (i \in DOMAIN translated_results)
                 <=> (tr_result[i].kind = "translation")
        /\ tr_pc /= "assemble" => failed_count = Cardinality(ErroredBatches)


-----------------------------------------------------------------------------
(* process_tts: the effect of a successful adjustment *)

\* where clip i of the list to mix would end if it began at its start time
EndOf(i) == final_audio_segments[i].time_ms + final_audio_segments[i].audio.len

\* C33: a clip whose adjustment succeeded with a factor strictly below 2.0
\* ends at start_ms[i+1] - 50 and so does not overlap its successor (the
\* time-stretch is taken to return duration / factor); a clip that still
\* overlaps its successor after a successful adjustment has the factor 2.0.
C33_AdjustedClipFits ==
    Selected =>
        \A i \in DoneAdjustments :
            LET f == FactorOf(i)
                next_start == final_audio_segments[i + 1].time_ms
            IN  /\ f[1] < 2 * f[2] =>
                      (EndOf(i) = next_start - 50 /\ EndOf(i) <= next_start)
                /\ EndOf(i) > next_start => f[1] = 2 * f[2]

\* witness of C33: the adjustment of the first of two clips succeeded with
\* the factor 1500/950, and the clip now ends at 950 ms, 50 ms before its
\* successor
C33_Witness ==
    /\ p_pc = "mix"
    /\ DoneAdjustments = {1}
    /\ FactorOf(1) = <<1500, 950>>
    /\ EndOf(1) = 950
    /\ final_audio_segments[2].time_ms = 1000
    /\ Len(final_audio_segments) = 2


-----------------------------------------------------------------------------
(* process_tts: whose audio a clip carries *)

\* the clips of the synthesized segments, each with the synthesis of its own
\* text, in the order of the sorted list
OwnClips ==
    LET ok == OkInIndexOrder(Len(segments))
    IN  SortByTime([n \in 1..Len(ok) |->
            [file |-> FileName(segments[ok[n]].timestamp),
             time_ms |-> ParseTimestamp(segments[ok[n]].timestamp),
             audio |-> Synthesize(segments[ok[n]].txt)]])

\* C34: in the list that is mixed every clip carries the speech of its own
\* segment's text, and a clip that was not marked for adjustment carries it
\* exactly as it was synthesized, also when segments share a timestamp.
C34_OwnAudio ==
    Selected =>
        /\ Len(final_audio_segments) = Len(OwnClips)
        /\ \A i \in 1..Len(final_audio_segments) :
              /\ final_audio_segments[i].audio.txt = OwnClips[i].audio.txt
              /\ i \notin MarkedClips =>
                    final_audio_segments[i].audio = OwnClips[i].audio


\* C35: when the single-video task has ended (after mark_completed or
\* mark_error), no step of the status is 'running': the step that failed is
\* 'error', the steps before it 'success', the steps after it 'pending'.
C35_NoRunningStepAtEnd ==
    w_pc = "ended" =>
        /\ \A s \in 1..NSteps : st_file.steps[s] /= "running"
        /\ w_error = FailureMsg =>
              \A s \in 1..NSteps :
                  st_file.steps[s] = IF s < w_step THEN "success"
                                     ELSE IF s = w_step THEN "error"
                                     ELSE "pending"


\* C36: whenever the status shows is_running = false (the state in which the
\* page offers the start button), the background_workflow_task thread of the
\* directory has ended: it executes no step and writes the status no more.
C36_NotRunningMeansEnded ==
    ~st_file.is_running => w_pc = "ended"


-----------------------------------------------------------------------------
(* background_batch_workflow_task and BatchWorkflowManager (app.py)          *)

\* most videos of one batch
MaxVideos == 2

\* BatchWorkflowManager.init_status, lines 659-683: every video 'pending'
InitialBatchStatus(n) ==
    [is_running |-> TRUE, stop_requested |-> FALSE,
     video_results |-> [v \in 1..n |-> "pending"], error |-> ""]

\* total_videos of the batch status
TotalVideos == Len(bst_file.video_results)

\* line 775 has run; the loop is before its first video; the batch page has
\* not asked for a stop
BInit ==
    /\ \E n \in 1..MaxVideos : bst_file = InitialBatchStatus(n)
    /\ bw_pc = "stop_check"
    /\ bw_i = 1
    /\ bw_code = ""
    /\ bw_break = FALSE
    /\ bw_local = NoStatus
    /\ video_files = <<>>
    /\ bui_pc = "idle"
    /\ bui_local = NoStatus
    /\ st_file = NoStatus /\ w_pc = "idle" /\ w_step = 0 /\ w_code = ""
    /\ w_local = NoStatus /\ w_attempt = 0 /\ w_error = ""
    /\ auto_upload \in BOOLEAN /\ ui_pc = "idle" /\ ui_local = NoStatus
    /\ SegIdle /\ BatIdle /\ TrIdle /\ TtsIdle /\ PIdle

\* lines 784-789: the stop check at the top of the loop body, then the
\* update_video call of line 786 (followed by break) or of line 789
BStopCheck ==
    /\ bw_pc = "stop_check"
    /\ bw_break' = StopSeen(bst_file)
    /\ bw_code' = IF StopSeen(bst_file) THEN "error" ELSE "running"
    /\ bw_pc' = "update_load"
    /\ UNCHANGED <<bst_file, bw_i, bw_local, video_files, bui_pc, bui_local>>
    /\ UNCHANGED <<segVars, batVars, trVars, ttsVars, pVars, wVars>>

\* update_video, line 717: load_status
BUpdateLoad ==
    /\ bw_pc = "update_load"
    /\ bw_local' = bst_file
    /\ bw_pc' = "update_save"
    /\ UNCHANGED <<bst_file, bw_i, bw_code, bw_break, video_files, bui_pc,
                   bui_local>>
    /\ UNCHANGED <<segVars, batVars, trVars, ttsVars, pVars, wVars>>

\* update_video, lines 718-723: the loaded copy gets the video's status and
\* is saved; then the task goes on: out of the loop (break, or the last video
\* is done), to the single-video workflow, or to the next video
BUpdateSave ==
    /\ bw_pc = "update_save"
    /\ bst_file' = [bw_local EXCEPT !.video_results[bw_i] = bw_code]
    /\ bw_local' = NoStatus
    /\ IF bw_break
       THEN bw_pc' = "mark_completed" /\ bw_i' = bw_i
       ELSE IF bw_code = "running"
       THEN bw_pc' = "call_single" /\ bw_i' = bw_i
       ELSE IF bw_i = TotalVideos
       THEN bw_pc' = "mark_completed" /\ bw_i' = bw_i
       ELSE bw_pc' = "stop_check" /\ bw_i' = bw_i + 1
    /\ UNCHANGED <<bw_code, bw_break, video_files, bui_pc, bui_local>>
    /\ UNCHANGED <<segVars, batVars, trVars, ttsVars, pVars, wVars>>

\* line 813: background_workflow_task(single_config) is called in the batch
\* thread on the directory video_<i>; its first statement is init_status
\* (line 236)
BCallSingle ==
    /\ bw_pc = "call_single"
    /\ st_file' = InitialStatus
    /\ w_pc' = "check"
    /\ w_step' = 0
    /\ w_code' = ""
    /\ w_local' = NoStatus
    /\ w_attempt' = 0
    /\ w_error' = ""
    /\ bw_pc' = "in_single"
    /\ UNCHANGED <<auto_upload, ui_pc, ui_local>>
    /\ UNCHANGED <<bst_file, bw_i, bw_code, bw_break, bw_local, video_files,
                   bui_pc, bui_local>>
    /\ UNCHANGED <<segVars, batVars, trVars, ttsVars, pVars>>

\* reporting every video as a success
BSingleStatus_AlwaysSuccess ==
    /\ bw_pc = "in_single"
    /\ w_pc = "ended"
    /\ video_files' = Append(video_files, st_file)
    /\ bw_code' = "success"
    /\ bw_pc' = "update_load"
    /\ UNCHANGED <<bst_file, bw_i, bw_break, bw_local, bui_pc, bui_local>>
    /\ UNCHANGED <<segVars, batVars, trVars, ttsVars, pVars, wVars>>

\* lines 814-819: background_workflow_task has returned; the status file of
\* video_<i> is loaded and its error decides the video's status
BSingleStatus ==
    /\ bw_pc = "in_single"
    /\ w_pc = "ended"
    /\ video_files' = Append(video_files, st_file)
    /\ bw_code' = IF st_file.error /= "" THEN "error" ELSE "success"
    /\ bw_pc' = "update_load"
    /\ UNCHANGED <<bst_file, bw_i, bw_break, bw_local, bui_pc, bui_local>>
    /\ UNCHANGED <<segVars, batVars, trVars, ttsVars, pVars, wVars>>

\* BatchWorkflowManager.mark_completed (line 826), line 745: load_status
BMarkLoad ==
    /\ bw_pc = "mark_completed"
    /\ bw_local' = bst_file
    /\ bw_pc' = "mark_completed_save"
    /\ UNCHANGED <<bst_file, bw_i, bw_code, bw_break, video_files, bui_pc,
                   bui_local>>
    /\ UNCHANGED <<segVars, batVars, trVars, ttsVars, pVars, wVars>>

\* BatchWorkflowManager.mark_completed, lines 746-751
BMarkSave ==
    /\ bw_pc = "mark_completed_save"
    /\ bst_file' = [bw_local EXCEPT !.is_running = FALSE]
    /\ bw_local' = NoStatus
    /\ bw_pc' = "ended"
    /\ UNCHANGED <<bw_i, bw_code, bw_break, video_files, bui_pc, bui_local>>
    /\ UNCHANGED <<segVars, batVars, trVars, ttsVars, pVars, wVars>>

\* the batch page shows the stop button while is_running (lines 1351-1358);
\* BatchWorkflowManager.request_stop, line 687: load_status
BUiStopLoad ==
    /\ bui_pc = "idle"
    /\ bst_file.is_running
    /\ bui_local' = bst_file
    /\ bui_pc' = "stop_save"
    /\ UNCHANGED <<bst_file, bw_pc, bw_i, bw_code, bw_break, bw_local,
                   video_files>>
    /\ UNCHANGED <<segVars, batVars, trVars, ttsVars, pVars, wVars>>

\* BatchWorkflowManager.request_stop, lines 688-692: batch_status.json gets
\* the stop request; the status file of video_<i> is not touched
BUiStopSave ==
    /\ bui_pc = "stop_save"
    /\ bst_file' = [bui_local EXCEPT !.stop_requested = TRUE,
                                     !.is_running = FALSE]
    /\ bui_local' = NoStatus
    /\ bui_pc' = "returned"
    /\ UNCHANGED <<bw_pc, bw_i, bw_code, bw_break, bw_local, video_files>>
    /\ UNCHANGED <<segVars, batVars, trVars, ttsVars, pVars, wVars>>

\* the batch thread runs the loop and, inside it, the statements of
\* background_workflow_task; the batch page may ask for a stop
BNext ==
    \/ BStopCheck
    \/ BUpdateLoad
    \/ BUpdateSave
    \/ BCallSingle
    \/ BSingleStatus
    \/ BMarkLoad
    \/ BMarkSave
    \/ BUiStopLoad
    \/ BUiStopSave
    \/ WCheck
    \/ WUpdateLoad
    \/ WUpdateSave
    \/ WRetryCheck
    \/ WOpOk
    \/ WOpFails
    \/ WRetryRecheck
    \/ WMarkLoad
    \/ WMarkCompletedSave
    \/ WMarkErrorSave

SpecBW == BInit /\ [][BNext]_vars



-----------------------------------------------------------------------------
(* background_batch_workflow_task: claims *)

\* the batch page has made no stop request
NoBatchStop == bui_pc = "idle"

\* C37: the videos are processed one at a time in list order, a failure of
\* one video does not keep the next one from being processed, and when the
\* batch ends without a stop request every video is 'success' or 'error',
\* 'success' exactly for the videos whose single-video workflow ended
\* without error.
C37_EveryVideoProcessed ==
    /\ (bw_pc = "ended" /\ NoBatchStop) =>
          /\ Len(video_files) = TotalVideos
          /\ \A v \in 1..TotalVideos :
                /\ bst_file.video_results[v] \in {"success", "error"}
                /\ bst_file.video_results[v] = "success"
                      <=> video_files[v].error = ""
    /\ (bw_pc = "in_single" /\ NoBatchStop) =>
          /\ Len(video_files) = bw_i - 1
          /\ \A v \in 1..(bw_i - 1) :
                bst_file.video_results[v] \in {"success", "error"}

\* witness of C37: a batch of two videos ended without a stop request; the
\* single-video workflow of the first failed, the one of the second did not
C37_Witness ==
    /\ bw_pc = "ended" /\ NoBatchStop
    /\ TotalVideos = 2
    /\ video_files[1].error = FailureMsg
    /\ video_files[2].error = ""
    /\ bst_file.video_results = <<"error", "success">>


\* C38: once the batch stop request has returned, the single-video workflow
\* of the current video halts at its next checkpoint (the checkpoint raises
\* the abort; no remaining step is started), and no further video is started.
C38_BatchStopHalts ==
    /\ [][(bui_pc = "returned" /\ bw_pc = "in_single" /\ AtCheckpoint
             /\ w_pc' /= w_pc)
          => (w_pc' = "mark_error" /\ w_error' = AbortMsg)]_vars
    /\ [][bui_pc = "returned" => ~(bw_pc = "call_single" /\ bw_pc' = "in_single")]_vars


-----------------------------------------------------------------------------
(* background_workflow_task: termination *)

\* the statements of the thread of background_workflow_task
WThread ==
    \/ WCheck
    \/ WUpdateLoad
    \/ WUpdateSave
    \/ WRetryCheck
    \/ WOpOk
    \/ WOpFails
    \/ WRetryRecheck
    \/ WMarkLoad
    \/ WMarkCompletedSave
    \/ WMarkErrorSave

\* the thread keeps running: every external call returns or raises
SpecWFair == SpecW /\ WF_vars(WThread)

\* C39: every started task ends, and once it has ended the status has
\* is_running = false and either the results recorded or the error set,
\* under every interleaving with request_stop.
C39_EndsWithOutcome ==
    /\ <>(w_pc = "ended")
    /\ [](w_pc = "ended" =>
             /\ ~st_file.is_running
             /\ st_file.results \/ st_file.error /= "")


-----------------------------------------------------------------------------
(* process_tts: splitting the text into units (tts_runner.py, lines 122-134) *)
(* and parse_timestamp (lines 56-68), as scans of characters                *)

\* "FWL" and "FWR" stand for the full-width parentheses U+FF08 and U+FF09

\* [\\(FWL] and [\\)FWR] of the pattern of line 122 and of line 131: in the
\* raw string the class holds the backslash too
UnitOpen == {"\\", "(", "FWL"}

UnitClose == {"\\", ")", "FWR"}

\* [\(FWL] and [\)FWR] of parse_timestamp, line 57
ParseOpen == {"(", "FWL"}

ParseClose == {")", "FWR"}

\* s[i] exists and is in the class
CharIn(s, i, class) == i >= 1 /\ i <= Len(s) /\ s[i] \in class

\* \d{n} matches s at position i
DigitsAt(s, i, n) == \A k \in i..(i + n - 1) : CharIn(s, k, Digits)

RECURSIVE IntOf(_, _, _)
\* int() of the n digits of s from position i (0 for no digit)
IntOf(s, i, n) ==
    IF n = 0 THEN 0
    ELSE IntOf(s, i, n - 1) * 10 + DigitVal(s[i + n - 1])

\* the ways to cut a timestamp: lengths of the hours, of the colon after
\* them, of the minutes, of the seconds and of the fraction (0: no fraction)
Cuts == [hl : 0..2, c : 0..1, ml : 1..3, sl : 1..2, fl : 0..3]

\* position of the closing bracket for a cut of the timestamp opened at i
CutEnd(i, d) ==
    i + 1 + d.hl + d.c + d.ml + 1 + d.sl + (IF d.fl > 0 THEN d.fl + 1 ELSE 0)

\* the cut d matches s from the opening bracket at i, up to a closing bracket
CutMatches(s, i, d, open, close) ==
    LET pM == i + 1 + d.hl + d.c
        pS == pM + d.ml + 1
        pF == pS + d.sl
    IN  /\ CharIn(s, i, open)
        /\ DigitsAt(s, i + 1, d.hl)
        /\ d.c = 1 => CharIn(s, i + 1 + d.hl, {":"})
        /\ DigitsAt(s, pM, d.ml)
        /\ CharIn(s, pM + d.ml, {":"})
        /\ DigitsAt(s, pS, d.sl)
        /\ d.fl > 0 => (CharIn(s, pF, {"."}) /\ DigitsAt(s, pF + 1, d.fl))
        /\ CharIn(s, CutEnd(i, d), close)

\* the order in which the re module tries the cuts: every quantifier is
\* greedy, an earlier one counts more
Rank(d) == (((d.hl * 2 + d.c) * 4 + d.ml) * 3 + d.sl) * 4 + d.fl

\* the match the re module returns: the first cut that it tries and that fits
FirstCut(S) == CHOOSE d \in S : \A e \in S : Rank(e) <= Rank(d)

\* line 122, the timestamp part of the pattern at position i:
\* [\\(FWL](\d{1,2})?:?(\d{1,3}):(\d{1,2})(?:\.(\d{1,3}))?[\\)FWR]
UnitTsCuts(s, i) == {d \in Cuts : CutMatches(s, i, d, UnitOpen, UnitClose)}

\* line 57, re.match of parse_timestamp:
\* [\(FWL](?:(\d{1,2}):)?(\d{1,3}):(\d{1,2})(?:\.(\d{1,3}))?[\)FWR]
\* (the hours come with their colon or not at all)
ParseCuts(s) ==
    {d \in Cuts : (d.hl > 0 <=> d.c = 1)
                  /\ CutMatches(s, 1, d, ParseOpen, ParseClose)}

\* lines 59-67: the milliseconds of the groups of a match
GroupsMs(s, i, d) ==
    LET pM == i + 1 + d.hl + d.c
        pS == pM + d.ml + 1
        pF == pS + d.sl + 1
        pad == IF d.fl = 1 THEN 100 ELSE IF d.fl = 2 THEN 10 ELSE 1
    IN  IntOf(s, i + 1, d.hl) * 3600 * 1000
        + IntOf(s, pM, d.ml) * 60 * 1000
        + IntOf(s, pS, d.sl) * 1000
        + IntOf(s, pF, d.fl) * pad

\* parse_timestamp, lines 56-68
parse_timestamp(timestamp) ==
    IF ParseCuts(timestamp) /= {}
    THEN GroupsMs(timestamp, 1, FirstCut(ParseCuts(timestamp)))
    ELSE 0

\* $ without re.MULTILINE: the end of the text, or just before a last newline
AtEnd(s, k) == k = Len(s) \/ (k = Len(s) - 1 /\ s[Len(s)] = "\n")

RECURSIVE TextEnd(_, _)
\* (.+?)(?=<timestamp>|$) from position k: the last position of the
\* shortest text after which a timestamp or the end follows
TextEnd(s, k) ==
    IF AtEnd(s, k) \/ UnitTsCuts(s, k + 1) /= {} THEN k
    ELSE TextEnd(s, k + 1)

RECURSIVE FirstClose(_, _)
\* line 131, [\\(FWL](.+?)[\\)FWR]: the first closing character from q on
FirstClose(s, q) ==
    IF q > Len(s) THEN 0
    ELSE IF s[q] \in UnitClose THEN q
    ELSE FirstClose(s, q + 1)

\* str.strip()
Strip(s) == StripChars(s, {" ", "\t", "\n", "\r"})

RECURSIVE SplitUnits(_, _)
\* lines 123-134: re.finditer from position i, and for every match with a
\* text that is not blank the pair (timestamp, content_text)
SplitUnits(s, i) ==
    IF i > Len(s) THEN <<>>
    ELSE IF UnitTsCuts(s, i) = {} THEN SplitUnits(s, i + 1)
    ELSE LET j == CutEnd(i, FirstCut(UnitTsCuts(s, i)))
         IN  IF j >= Len(s) THEN SplitUnits(s, i + 1)
             ELSE LET k == TextEnd(s, j + 1)
                      timestamp_string == SubSeq(s, i, k)
                      content_text == Strip(SubSeq(s, j + 1, k))
                      q == FirstClose(timestamp_string, 3)
                  IN  (IF content_text /= <<>> /\ q > 0
                       THEN <<[timestamp |-> SubSeq(timestamp_string, 2, q - 1),
                               txt |-> content_text]>>
                       ELSE <<>>)
                      \o SplitUnits(s, k + 1)

\* process_segment, line 85: f"({timestamp})"
Wrapped(timestamp) == <<"(">> \o timestamp \o <<")">>

\* timestamps of the units of the input texts, without their brackets
UnitTimestamps ==
    { FormatTs(1200), FormatTs(0),
      <<"0", "0", ":", "0", "1">>,
      <<"1", ":", "0", "2", ":", "0", "3">>,
      <<"0", ":", "0", "1", ".", "5">>,
      <<"1", "2", "0", ":", "0", "0">>,
      <<"1", ":", "2">>,
      <<":", "0", "2", ":", "0", "3">>,
      <<"0", "1", "0", "2", ":", "0", "3">> }

\* texts of the units
UnitTexts == { <<" ", "h", "i">>, <<" ", "y", "o", "\n">> }

\* one unit: an opening bracket, a timestamp, a closing bracket, a text
UnitStrings ==
    { <<o>> \o t \o <<c>> \o x :
        o \in UnitOpen, t \in UnitTimestamps, c \in UnitClose, x \in UnitTexts }

\* input texts: one unit, or two units with round brackets one after the
\* other
UnitContents ==
    UnitStrings
    \cup { <<"(">> \o t \o <<")", " ", "a">> \o <<"(">> \o u \o <<")", " ", "b">> :
             t \in UnitTimestamps, u \in UnitTimestamps }

\* lines 116-117: the text of the file has been read
UInit ==
    /\ p_pc = "read"
    /\ content \in UnitContents
    /\ segments = <<>> /\ synth = <<>> /\ files = <<>>
    /\ audio_files = <<>> /\ processed_audio_segments = <<>>
    /\ speed_adjust_tasks_list = <<>> /\ adjust = <<>>
    /\ final_audio_segments = <<>> /\ combined_audio = <<>>
    /\ current_pos = 0 /\ output_mp3 = <<>>
    /\ returncode = "none" /\ mp3_file_path = "pending"
    /\ SegIdle /\ BatIdle /\ TrIdle /\ TtsIdle /\ WIdle /\ BwIdle

\* lines 122-134: the text is split into segments
PSplitUnits ==
    /\ p_pc = "read"
    /\ segments' = SplitUnits(content, 1)
    /\ p_pc' = "split"
    /\ UNCHANGED <<content, synth, files, audio_files, processed_audio_segments,
                   speed_adjust_tasks_list, adjust, final_audio_segments,
                   combined_audio, current_pos, output_mp3, returncode,
                   mp3_file_path>>
    /\ UNCHANGED <<segVars, batVars, trVars, ttsVars, wVars, bwVars>>

\* process_segment, lines 76-86, for every segment: its file and its
\* time_ms (the synthesis succeeds)
PSegmentTimes ==
    /\ p_pc = "split"
    /\ audio_files' =
          [i \in 1..Len(segments) |->
              [file |-> FileName(segments[i].timestamp),
               time_ms |-> parse_timestamp(Wrapped(segments[i].timestamp))]]
    /\ p_pc' = "timed"
    /\ UNCHANGED <<content, segments, synth, files, processed_audio_segments,
                   speed_adjust_tasks_list, adjust, final_audio_segments,
                   combined_audio, current_pos, output_mp3, returncode,
                   mp3_file_path>>
    /\ UNCHANGED <<segVars, batVars, trVars, ttsVars, wVars, bwVars>>

UNext ==
    \/ PSplitUnits
    \/ PSegmentTimes

SpecUnits == UInit /\ [][UNext]_vars

\* the timestamp reads zero: every digit of it is 0
ZeroTimestamp(timestamp) ==
    \A k \in 1..Len(timestamp) : timestamp[k] \in Digits => timestamp[k] = "0"

\* C40: every unit that process_tts splits out of the text gets the start_ms
\* of its own timestamp: parse_timestamp matches every timestamp the unit
\* pattern accepted, so no accepted unit falls back to 0 ms (a start of 0 ms
\* is that of a timestamp that reads zero).
C40_StartMsIsOwnTimestamp ==
    p_pc = "timed" =>
        \A i \in 1..Len(segments) :
            /\ ParseCuts(Wrapped(segments[i].timestamp)) /= {}
            /\ audio_files[i].time_ms = 0 => ZeroTimestamp(segments[i].timestamp)

====
